---- MODULE Spec2Model ----
(***************************************************************************)
(* Streaming conversation engine of winter-app (src-tauri).                *)
(*                                                                         *)
(*  - chat_send / stream_response (direct provider path, lib.rs and        *)
(*    claude/client.rs): the bounded multi-round tool loop, the            *)
(*    credential refresh under the shared lock, the shared abort flag.     *)
(*  - OpenCodeClient::subscribe_sse (bridge path, opencode/client.rs):     *)
(*    the reconnecting subscription with cumulative text snapshots.        *)
(*                                                                         *)
(* Strings are sequences of bytes; len() is Len.  The two bytes "C3", "A9" *)
(* are one character (U+00E9), every other byte is a character of its own.*)
(***************************************************************************)
EXTENDS Integers, Sequences, FiniteSets, TLC

\* ------------------------------------------------------------------------
\* Program constants
\* ------------------------------------------------------------------------

MAX_TOOL_ROUNDS == 25

SUMMARIZE_THRESHOLD == 3000
MAX_OUTPUT == 524288

HISTORY_COMPRESS_LEN == 10

\* ollama.rs
MIN_SUMMARIZE_LEN == 500
HISTORY_COMPRESS_THRESHOLD == 10
PRIOR_CONTEXT_PREFIX == "[Prior context"
PREVIEW_LEN == 200

\* The largest count read back from the header of a prior-context message.
MaxCount == 40

\* subscribe_sse: IDLE_TIMEOUT, the per-chunk read timeout and RECONNECT_DELAY
\* in seconds, MAX_IDLE_PINGS.
IDLE_TIMEOUT == 60

READ_TIMEOUT == 5

\* hooks.rs
HOOK_TIMEOUT_SECS == 5

RECONNECT_DELAY == 2

MAX_IDLE_PINGS == 3

\* ------------------------------------------------------------------------
\* Bounds of the model
\* ------------------------------------------------------------------------

\* A provider that varies its streams asks for tools in at most MaxVaried
\* rounds of a call (the other provider of the model asks for the same tool
\* in every round, without end).
MaxVaried == 1

\* Credential generations: at most MaxGen successful refreshes per run.
MaxGen == 2

\* Rounds in which the provider may ask for tools when two conversations run.
MaxConcRounds == 1

\* Reconnects of one subscription after a stream that ended or failed.
MaxReconnects == 1

\* Seconds the clock of a hook check is followed for.
MaxClock == 7

\* Connection attempts of one subscription that fail or are refused.
MaxRefused == 3

Convs == {1, 2}

\* ------------------------------------------------------------------------
\* Data: frames, events, content blocks, messages
\* ------------------------------------------------------------------------

NoText == << >>

\* One SSE frame of the provider: "event: <event>" and the JSON of "data: ".
\* bad = TRUE stands for a data line that is not valid JSON.
Frame(event, kind, id, name, text) ==
  [event |-> event, kind |-> kind, id |-> id, name |-> name, text |-> text, bad |-> FALSE]

FMessageStart == Frame("message_start", "", "", "", NoText)
FTextStart == Frame("content_block_start", "text", "", "", NoText)
FToolStart(id, name) == Frame("content_block_start", "tool_use", id, name, NoText)
FTextDelta(t) == Frame("content_block_delta", "text_delta", "", "", t)
FJsonDelta(j) == Frame("content_block_delta", "input_json_delta", "", "", j)
FBlockStop == Frame("content_block_stop", "", "", "", NoText)
FMessageDelta(sr) == Frame("message_delta", sr, "", "", NoText)
FError == Frame("error", "", "", "", <<"e">>)

\* ChatStreamEvent (the domain events sent through the channel).
Event(ev, id, name, text) == [ev |-> ev, id |-> id, name |-> name, text |-> text]

EvStreamStart == Event("StreamStart", "", "", NoText)
EvStreamEnd == Event("StreamEnd", "", "", NoText)
EvDelta(t) == Event("Delta", "", "", t)
EvReasoning(t) == Event("Reasoning", "", "", t)
EvToolStart(id, name) == Event("ToolStart", id, name, NoText)
EvToolEnd(id, result) == Event("ToolEnd", id, "", result)
EvUsage == Event("Usage", "", "", NoText)
EvError(m) == Event("Error", "", "", m)
EvStatus(s) == Event("Status", "", s, NoText)
EvOllamaStatus(s) == Event("OllamaStatus", "", s, NoText)

\* ContentBlock
Block(type, id, name, body, is_error) ==
  [type |-> type, id |-> id, name |-> name, body |-> body, is_error |-> is_error]

TextBlock(t) == Block("text", "", "", t, FALSE)

\* Commands a shell_exec call may carry, character by character.
CmdLs == <<"l", "s">>
CmdRm == <<"r", "m", " ", "-", "r", "f", " ", "/">>
CmdRmUpper == <<"R", "M", " ", "-", "R", "F", " ", "/">>
CmdChmod == <<"c", "h", "m", "o", "d", " ", "-", "R", " ", "7", "7", "7", " ", "/">>
CmdChmodLower == <<"c", "h", "m", "o", "d", " ", "-", "r", " ", "7", "7", "7", " ", "/">>
Commands == {CmdLs, CmdRm, CmdRmUpper, CmdChmod, CmdChmodLower}

\* The JSON text {"command": "<cmd>"}: the braces around the characters of
\* the command.
CommandDoc(cmd) == <<"{">> \o cmd \o <<"}">>

\* serde_json::from_str(input_json).unwrap_or(json!({})): the JSON texts of
\* the model are sequences of tokens; the documents that parse are {}, {k}
\* (an object without a "command" member) and the command documents,
\* everything else yields the empty object.
EmptyObject == <<"{", "}">>
OtherObject == <<"{", "k", "}">>
ValidJson == {EmptyObject, OtherObject} \cup {CommandDoc(cmd) : cmd \in Commands}
ParseInput(input_json) == IF input_json \in ValidJson THEN input_json ELSE EmptyObject

ToolUseBlock(id, name, input_json) == Block("tool_use", id, name, ParseInput(input_json), FALSE)

ToolResultBlockNoId(id, output, is_error) == Block("tool_result", "", "", output, is_error)
ToolResultBlock(id, output, is_error) == Block("tool_result", id, "", output, is_error)

\* ChatMessage; MessageContent::Text is kind "text", ::Blocks is kind "blocks".
TextMessage(role, t) == [role |-> role, kind |-> "text", text |-> t, blocks |-> << >>]
BlocksMessage(role, blocks) == [role |-> role, kind |-> "blocks", text |-> NoText, blocks |-> blocks]

\* ------------------------------------------------------------------------
\* The environment: provider streams and tool outcomes
\* ------------------------------------------------------------------------

\* A stream of the provider, one frame per chunk.
ScriptText ==
  <<FMessageStart, FTextStart, FTextDelta(<<"a">>), FTextDelta(<<"b">>), FBlockStop,
    FMessageDelta("end_turn")>>

\* One complete tool call whose arguments arrive in two fragments.
ScriptLoop ==
  <<FToolStart("t1", "shell_exec"), FJsonDelta(<<"{">>), FJsonDelta(<<"k", "}">>),
    FBlockStop, FMessageDelta("tool_use")>>

\* Text, a call with malformed arguments, a call of an unknown tool.
ScriptTextTools ==
  <<FTextStart, FTextDelta(<<"a">>), FBlockStop,
    FToolStart("t1", "file_read"), FJsonDelta(<<"{">>), FBlockStop,
    FToolStart("t2", "nosuch"), FBlockStop, FMessageDelta("tool_use")>>

\* A provider error frame in the middle of the text.
ScriptError == <<FTextStart, FTextDelta(<<"a">>), FError, FTextDelta(<<"b">>)>>

\* A tool call whose content_block_stop never arrives.
ScriptCut == <<FToolStart("t1", "shell_exec"), FJsonDelta(<<"{">>), FMessageDelta("tool_use")>>

\* A complete tool call in a round that stops for another reason.
ScriptToolNoUse == <<FToolStart("t1", "file_list"), FBlockStop, FMessageDelta("max_tokens")>>

\* The streams offered when two conversations run.
ScriptShortTool == <<FToolStart("t1", "file_list"), FBlockStop, FMessageDelta("tool_use")>>
ScriptShortText == <<FTextDelta(<<"a">>), FMessageDelta("end_turn")>>

Scripts == {ScriptText, ScriptLoop, ScriptTextTools, ScriptError, ScriptCut, ScriptToolNoUse}

\* All the ways to cut doc into non-empty fragments.
RECURSIVE Splits(_)
Splits(doc) ==
  IF doc = << >> THEN {<< >>}
  ELSE UNION {{<<SubSeq(doc, 1, i)>> \o rest : rest \in Splits(SubSeq(doc, i + 1, Len(doc)))} :
                i \in 1..Len(doc)}

\* The first character apart from the rest: one way to cut a long document.
HeadCut(doc) == <<SubSeq(doc, 1, 2), SubSeq(doc, 3, Len(doc))>>

\* One tool call whose arguments arrive as the input_json_delta fragments frags.
ArgFrames(id, name, frags) ==
  <<FToolStart(id, name)>> \o [i \in 1..Len(frags) |-> FJsonDelta(frags[i])] \o <<FBlockStop>>

ScriptArgs(frags) == ArgFrames("t1", "shell_exec", frags) \o <<FMessageDelta("tool_use")>>

\* Two calls with arguments in one round.
ScriptTwoCalls ==
  ArgFrames("t1", "file_read", <<<<"{", "k">>, <<"}">>>>)
    \o ArgFrames("t2", "shell_exec", HeadCut(CommandDoc(CmdLs)))
    \o <<FMessageDelta("tool_use")>>

\* A frame whose data line is missing or is not valid JSON.
Bad(f) == [f EXCEPT !.bad = TRUE]

\* A frame of an event type stream_response does not know.
FPing == Frame("ping", "", "", "", NoText)

\* Streams with bad frames among good ones.
ScriptBadText ==
  <<FTextStart, FTextDelta(<<"a">>), Bad(FTextDelta(<<"x">>)), FPing, FTextDelta(<<"b">>),
    Bad(FMessageDelta("tool_use")), FBlockStop, Bad(FPing), FMessageDelta("end_turn")>>

ScriptBadTool ==
  <<Bad(FMessageStart), FToolStart("t1", "shell_exec"), FJsonDelta(<<"{">>),
    Bad(FJsonDelta(<<"k">>)), Bad(FToolStart("t9", "nosuch")), FJsonDelta(<<"}">>),
    FBlockStop, FMessageDelta("tool_use")>>

ScriptBadStop ==
  <<FToolStart("t1", "file_list"), Bad(FBlockStop), FMessageDelta("tool_use")>>

ScriptBadError == <<FTextStart, Bad(FError), FTextDelta(<<"a">>)>>

BadScripts == {ScriptBadText, ScriptBadTool, ScriptBadStop, ScriptBadError}

\* The streams of the provider that varies the arguments: every cut of a
\* document that parses and of one that does not, and the command documents.
ArgScripts ==
  {ScriptArgs(frags) : frags \in Splits(OtherObject) \cup Splits(<<"{", "k">>)}
    \cup {ScriptArgs(HeadCut(CommandDoc(cmd))) : cmd \in Commands}
    \cup {ScriptTwoCalls}

\* Outputs of tools, byte by byte; the token "B" stands for a run of
\* SUMMARIZE_THRESHOLD + 1 ASCII bytes and "H" for a run of MAX_OUTPUT - 1.
OutSmall == <<"o">>
OutBig == <<"B">>
OutFail == <<"f">>
OutUnknown == <<"u">>
OutSummary == <<"S", "s">>
OutTimeout == <<"t">>
OutHuge == <<"H", "x", "y">>
OutHugeAccent == <<"H", "C3", "A9">>
OutTruncated == <<"T">>

TokenLen(t) ==
  CASE t = "B" -> SUMMARIZE_THRESHOLD + 1
    [] t = "H" -> MAX_OUTPUT - 1
    [] t = "M" -> MIN_SUMMARIZE_LEN
    [] t = "user" -> 4
    [] t = "assistant" -> 9
    [] t = "]: " -> 3
    [] t = "LFLF" -> 2
    [] OTHER -> 1

\* String::len
RECURSIVE ByteLen(_)
ByteLen(output) ==
  IF output = << >> THEN 0 ELSE TokenLen(Head(output)) + ByteLen(Tail(output))

\* The tokens of output that lie within its first n bytes.
RECURSIVE Prefix(_, _)
Prefix(output, n) ==
  IF output = << >> \/ TokenLen(Head(output)) > n THEN << >>
  ELSE <<Head(output)>> \o Prefix(Tail(output), n - TokenLen(Head(output)))

\* if result.len() > MAX_OUTPUT { result.truncate(MAX_OUTPUT); result.push_str(..) }
\* String::truncate panics when MAX_OUTPUT is not a character boundary of
\* the result, that is when the byte there is a continuation byte.
Panics(result) ==
  /\ ByteLen(result) > MAX_OUTPUT
  /\ result[Len(Prefix(result, MAX_OUTPUT)) + 1] = "A9"

Truncated(result) ==
  IF ByteLen(result) > MAX_OUTPUT THEN Prefix(result, MAX_OUTPUT) \o OutTruncated ELSE result

KnownTools == {"shell_exec", "file_read", "file_write", "file_list"}

\* input["command"].as_str().unwrap_or("")
Command(input) ==
  IF input \in {EmptyObject, OtherObject} THEN << >> ELSE SubSeq(input, 2, Len(input) - 1)

\* let blocked = [...]: five of the twelve patterns, those over the characters
\* of the commands above.
blocked ==
  <<<<"r", "m", " ", "-", "r", "f", " ", "/">>,
    <<"r", "m", " ", "-", "r", "f", " ", "~">>,
    <<"m", "k", "f", "s", ".">>,
    <<"d", "d", " ", "i", "f", "=">>,
    <<"c", "h", "m", "o", "d", " ", "-", "R", " ", "7", "7", "7", " ", "/">>>>

\* str::to_lowercase on the characters of the commands
LowerChar(ch) ==
  CASE ch = "R" -> "r"
    [] ch = "M" -> "m"
    [] ch = "F" -> "f"
    [] OTHER -> ch

ToLowercase(cmd) == [i \in 1..Len(cmd) |-> LowerChar(cmd[i])]

\* str::contains
Contains(text, pattern) ==
  \E i \in 0..(Len(text) - Len(pattern)) : SubSeq(text, i + 1, i + Len(pattern)) = pattern

\* for pattern in &blocked { if cmd_lower.contains(pattern) { return ... } }:
\* the index of the first pattern found in the lowered command, 0 when none is.
\* The patterns themselves are compared as they are written.
FirstBlocked(cmd) ==
  LET cmd_lower == ToLowercase(cmd)
      hits == {i \in 1..Len(blocked) : Contains(cmd_lower, blocked[i])}
  IN IF hits = {} THEN 0 ELSE CHOOSE i \in hits : \A j \in hits : i <= j

\* format!("Blocked: dangerous command pattern '{}' detected", pattern)
OutBlocked(pattern) == <<"Blocked">> \o pattern

\* What a call of execute_tool does: the pair it returns, whether it spawned
\* a process, whether it panicked instead of returning.
Outcome(output, is_error, spawned) ==
  [output |-> Truncated(output), is_error |-> is_error, spawned |-> spawned,
   panicked |-> spawned /\ Panics(output)]

\* The process of a shell_exec call: what it wrote and whether it succeeded,
\* or the timeout.
ProcessOutcomes(rich) ==
  CASE rich = "varied" ->
         {Outcome(OutSmall, FALSE, TRUE), Outcome(OutBig, FALSE, TRUE),
          Outcome(OutFail, TRUE, TRUE)}
    [] rich = "args" ->
         {Outcome(OutSmall, FALSE, TRUE), Outcome(OutTimeout, TRUE, TRUE),
          Outcome(OutHuge, TRUE, TRUE), Outcome(OutHugeAccent, TRUE, TRUE)}
    [] OTHER -> {Outcome(OutSmall, FALSE, TRUE)}

\* exec_shell: the deny-list, then bash -c cmd.
exec_shell(input, rich) ==
  LET cmd == Command(input)
      hit == FirstBlocked(cmd)
  IN IF hit > 0 THEN {Outcome(OutBlocked(blocked[hit]), TRUE, FALSE)}
     ELSE ProcessOutcomes(rich)

\* The file tools: the outcomes are the file system's.
FileOutcomes(rich) ==
  CASE rich = "varied" ->
         {Outcome(OutSmall, FALSE, FALSE), Outcome(OutBig, FALSE, FALSE),
          Outcome(OutFail, TRUE, FALSE)}
    [] rich = "long" -> {Outcome(OutSmall, FALSE, FALSE), Outcome(OutBig, FALSE, FALSE)}
    [] OTHER -> {Outcome(OutSmall, FALSE, FALSE)}

\* execute_tool
ToolOutcomes(name, input, rich) ==
  IF name = "shell_exec" THEN exec_shell(input, rich)
  ELSE IF name \in KnownTools THEN FileOutcomes(rich)
  ELSE {Outcome(OutUnknown, TRUE, FALSE)}

\* The transcript handed to chat_send.
InputMessages == {<<TextMessage("user", <<"q">>)>>}

\* ------------------------------------------------------------------------
\* ollama.rs: compress_history
\* ------------------------------------------------------------------------

Max(a, b) == IF a >= b THEN a ELSE b
Min(a, b) == IF a <= b THEN a ELSE b

\* The loop of compute_keep, walking backwards from messages[i] with keep
\* messages and turns user turns counted so far.
RECURSIVE KeepWalk(_, _, _, _)
KeepWalk(msgs, i, keep, turns) ==
  IF i = 0 THEN keep
  ELSE LET k == keep + 1
           t == IF msgs[i].role = "user" THEN turns + 1 ELSE turns
       IN IF (t >= 2 /\ k >= 4) \/ k >= 8 THEN k ELSE KeepWalk(msgs, i - 1, k, t)

compute_keep(msgs) == Max(KeepWalk(msgs, Len(msgs), 0, 0), 4)

\* MessageContent::Text(t) with t.starts_with(PRIOR_CONTEXT_PREFIX)
StartsWithPrior(m) ==
  m.kind = "text" /\ m.text # << >> /\ Head(m.text) = PRIOR_CONTEXT_PREFIX

\* The number of leading messages left out of the compression: the first
\* prior-context message and its acknowledgement, and all before them.
find_compress_start(msgs) ==
  LET hits == {i \in 1..Len(msgs) : StartsWithPrior(msgs[i])}
  IN IF hits = {} THEN 0
     ELSE Min((CHOOSE i \in hits : \A j \in hits : i <= j) + 1, Len(msgs))

\* t.lines().skip(1): the text after the header line, which ends with "]".
RECURSIVE SkipLine(_)
SkipLine(t) ==
  IF t = << >> THEN << >> ELSE IF Head(t) = "]" THEN Tail(t) ELSE SkipLine(Tail(t))

None == [some |-> FALSE, text |-> << >>]
Some(t) == [some |-> TRUE, text |-> t]

extract_existing_summary(msgs, compress_start) ==
  IF compress_start < 2 THEN None
  ELSE IF StartsWithPrior(msgs[compress_start - 1])
  THEN Some(SkipLine(msgs[compress_start - 1].text))
  ELSE None

\* num_str.parse().unwrap_or(0)
ParseCount(tok) ==
  LET ns == {n \in 0..MaxCount : ToString(n) = tok}
  IN IF ns = {} THEN 0 ELSE CHOOSE n \in ns : TRUE

extract_prev_count(msgs, compress_start) ==
  IF compress_start < 2 THEN 0
  ELSE LET m == msgs[compress_start - 1]
       IN IF StartsWithPrior(m) /\ Len(m.text) >= 2 THEN ParseCount(m.text[2]) ELSE 0

\* The first n characters of a text.
RECURSIVE Take(_, _)
Take(t, n) ==
  IF t = << >> \/ TokenLen(Head(t)) > n THEN << >>
  ELSE <<Head(t)>> \o Take(Tail(t), n - TokenLen(Head(t)))

BlockText(b) ==
  CASE b.type = "text" -> b.body
    [] b.type = "tool_result" ->
         <<"[Tool result] ">> \o Take(b.body, PREVIEW_LEN)
           \o (IF ByteLen(b.body) > PREVIEW_LEN THEN <<"...">> ELSE << >>)
    [] b.type = "tool_use" -> <<"[Tool: ", b.name, "]">>
    [] OTHER -> <<"[Image]">>

RECURSIVE JoinBlocks(_)
JoinBlocks(blocks) ==
  IF blocks = << >> THEN << >>
  ELSE IF Len(blocks) = 1 THEN BlockText(blocks[1])
  ELSE BlockText(blocks[1]) \o <<"LF">> \o JoinBlocks(Tail(blocks))

extract_text_content(m) == IF m.kind = "text" THEN m.text ELSE JoinBlocks(m.blocks)

\* format!("[{}]: {}\n\n", msg.role, extract_text_content(&msg.content)) of
\* every message, one after the other.
RECURSIVE TranscriptOf(_)
TranscriptOf(msgs) ==
  IF msgs = << >> THEN << >>
  ELSE <<"[", Head(msgs).role, "]: ">> \o extract_text_content(Head(msgs)) \o <<"LFLF">>
         \o TranscriptOf(Tail(msgs))

\* What the Ollama server answers a generate request with: nothing usable,
\* or a response.
OllamaFails == [ok |-> FALSE, text |-> << >>]
OllamaReplies == {OllamaFails, [ok |-> TRUE, text |-> <<"s">>]}

\* summarize: short texts come back as they are, without a request.
summarize(text, reply) ==
  IF ByteLen(text) < MIN_SUMMARIZE_LEN THEN [ok |-> TRUE, text |-> text] ELSE reply

\* The two synthetic messages.
PriorContext(total, summary) ==
  TextMessage("user", <<PRIOR_CONTEXT_PREFIX, ToString(total), "]">> \o summary)
ContextReceived == TextMessage("assistant", <<"Context received.">>)

Ok(msgs) == [ok |-> TRUE, messages |-> msgs]
Err == [ok |-> FALSE, messages |-> << >>]

ToKeepFrom(msgs, compress_end) == SubSeq(msgs, compress_end, Len(msgs))
\* &messages[compress_end..]
ToKeep(msgs, compress_end) == SubSeq(msgs, compress_end + 1, Len(msgs))

compress_history(msgs, reply) ==
  IF Len(msgs) <= HISTORY_COMPRESS_THRESHOLD THEN Ok(msgs)
  ELSE LET keep == compute_keep(msgs)
           compress_start == find_compress_start(msgs)
           compress_end == Len(msgs) - keep
       IN IF Len(msgs) <= keep \/ compress_start >= compress_end THEN Ok(msgs)
          ELSE LET existing_summary == extract_existing_summary(msgs, compress_start)
                   to_compress == SubSeq(msgs, compress_start + 1, compress_end)
                   to_keep == ToKeep(msgs, compress_end)
                   transcript == TranscriptOf(to_compress)
                   input == IF existing_summary.some
                            THEN <<"[Previous summary]", "LF">> \o existing_summary.text
                                   \o <<"LFLF", "[New messages]", "LF">> \o transcript
                            ELSE transcript
                   summary == summarize(input, reply)
                   total_compressed ==
                     IF existing_summary.some
                     THEN extract_prev_count(msgs, compress_start) + Len(to_compress)
                     ELSE Len(to_compress)
               IN IF ByteLen(transcript) < MIN_SUMMARIZE_LEN THEN Ok(msgs)
                  ELSE IF ~summary.ok THEN Err
                  ELSE Ok(<<PriorContext(total_compressed, summary.text), ContextReceived>>
                            \o to_keep)

AfterCompressAlways(conv, res) == res.messages
\* Ok(compressed) => conversation = compressed; Err(_) leaves it.
AfterCompress(conv, res) == IF res.ok THEN res.messages ELSE conv

\* Long transcripts.
User == TextMessage("user", <<"q">>)
Assistant == TextMessage("assistant", <<"r">>)
UserLong == TextMessage("user", <<"M">>)
ToolResults == BlocksMessage("user", <<Block("tool_result", "t0", "", <<"o">>, FALSE)>>)
ToolCalls == BlocksMessage("assistant", <<Block("tool_use", "t0", "file_list", <<"{", "}">>, FALSE)>>)

RECURSIVE Turns(_)
\* n messages, assistant and user in turn: the last is a user message when n is even.
Turns(n) ==
  IF n = 0 THEN << >>
  ELSE Turns(n - 1) \o <<IF n % 2 = 1 THEN Assistant ELSE User>>

RECURSIVE Repeat(_, _)
Repeat(m, n) == IF n = 0 THEN << >> ELSE <<m>> \o Repeat(m, n - 1)

LongTranscripts ==
  { <<UserLong>> \o Turns(10),
    <<User>> \o Turns(10),
    <<UserLong>> \o Turns(9),
    <<PriorContext(12, <<"p">>), ContextReceived, UserLong>> \o Turns(10),
    Turns(8) \o <<PriorContext(3, <<"p">>), ContextReceived, UserLong, Assistant>>,
    <<UserLong, Assistant, User>> \o Repeat(Assistant, 8),
    <<UserLong, ToolCalls, ToolResults, Assistant, User>> \o Repeat(Assistant, 5) \o <<User>>,
    <<User, UserLong, PriorContext(2, <<"p">>), ContextReceived, UserLong>> \o Turns(8),
    <<UserLong>> \o Turns(4) \o <<ToolCalls, ToolResults, ToolCalls, ToolResults, Assistant, User>>,
    <<UserLong>> \o Turns(6) \o <<ToolCalls, ToolResults, Assistant, User, User>>,
    <<UserLong>> \o Turns(6) \o <<ToolCalls, ToolResults, ToolCalls, ToolResults, Assistant>> }

\* The transcripts the front end hands over, by the provider of the run.
Transcripts(p) == IF p = "long" THEN LongTranscripts ELSE InputMessages

\* ------------------------------------------------------------------------
\* State
\* ------------------------------------------------------------------------

VARIABLES
  abort_flag,          \* Arc<AtomicBool> managed by the app, shared by all calls
  tokenGen,            \* store: generation of the stored access token
  tokenExpired,        \* store: now_millis() > oauth_expires
  refreshLock,         \* tokio::sync::Mutex<()>: 0 free, else the holder
  ollama_enabled,      \* ollama settings
  provider,            \* environment: how the provider answers this call
  pc,                  \* position of each chat_send call
  access_token,        \* chat_send's local access_token
  round,               \* loop variable of chat_send
  conversation,        \* chat_send's transcript
  feed,                \* events sent on the call's channel, in order
  ret,                 \* result of the call: "none", "Ok", "Err", "Panic"
  attempt,             \* 1: first request of the round, 2: the retry after 401
  frames,              \* chunks of the response not yet read
  acc,                 \* round accumulator of stream_response
  toolIdx,             \* index of the tool call being executed
  tool_result_blocks,  \* results collected in this round
  raw_output,          \* output waiting for ollama::summarize
  roundRefreshes,      \* history: refresh calls made in the current round
  precheck,            \* history: the pre-check of this round found expiry
  sentToken,           \* history: token of the last request sent
  feedAtSend,          \* history: length of feed when the stream of the round began
  lastExec,            \* history: the last call of execute_tool
  lastCall,            \* history: the provider's answer to the last request and the Err it gave
  stream,              \* history: the stream the provider answered the round with
  convAtRound,         \* history: the transcript when the round began
  messages,            \* history: the transcript chat_send received
  lastReply,           \* history: how the last call of the ollama module ended
  requests,            \* history: provider requests sent in the round
  seenGen,             \* history: tokenGen when the call found it needs a refresh
  refreshCalls,        \* history: refresh calls made in total
  staleRefreshes       \* history: refreshes of a credential refreshed since seen

chatVars ==
  <<abort_flag, tokenGen, tokenExpired, refreshLock, ollama_enabled, provider, pc,
    access_token, round, conversation, feed, ret, attempt, frames, acc, toolIdx, tool_result_blocks,
    raw_output, roundRefreshes, precheck, sentToken, feedAtSend, lastExec, lastCall, stream, convAtRound,
    messages, lastReply, requests, seenGen, refreshCalls, staleRefreshes>>

VARIABLES
  sse_pc,              \* position of subscribe_sse
  text_lengths,        \* part id -> length held (0: no entry)
  tool_started,        \* call ids with an entry in tool_started
  user_msg_ids,        \* ids of user messages seen on the bus
  known_msg_ids,       \* ids fetched before subscribing
  idle_ping_count,
  elapsed,             \* last_session_activity.elapsed() in seconds, up to IDLE_TIMEOUT
  emitted,             \* events sent on the channel by the last step
  sse_ret,             \* "none" or "Ok"
  reconnects,          \* history: connections lost or refused so far
  nudged,              \* history: "continue" nudges sent by the last step
  sentText,            \* history: part id -> text sent for it as Delta or Reasoning
  startSent,           \* history: call ids a ToolStart was sent for
  terminals,           \* history: StreamEnd and Error events sent
  marked,              \* history: one delivered text event with the connection it came
                       \* on, kept to watch its re-delivery
  redelivery,          \* history: the last step handled the marked event once more
  arm                  \* history: the arm of the handler the last frame took

VARIABLES
  hook_pc,             \* position of HookGuard::check
  script,              \* what check.py of the workspace does when it is run
  hook_input,          \* whether the serialized HookInput fits the buffer of the pipe
  hook_clock,          \* seconds since check.py was spawned
  hook_ret             \* the HookResult returned

hookVars == <<hook_pc, script, hook_input, hook_clock, hook_ret>>

VARIABLES
  chunks,              \* the chunks bytes_stream yields for one response body
  chunks_read,         \* how many of them stream.next() has yielded
  buffer,              \* stream_response's buffer
  parsed,              \* its accumulator
  sent                 \* the events it has sent

parseVars == <<chunks, chunks_read, buffer, parsed, sent>>

VARIABLES
  tasks,               \* SchedulerState.registry.tasks
  job_map,             \* SchedulerState.job_map: task id -> uuid of its cron job, NoJob if none
  jobs,                \* the uuids of the jobs the JobScheduler holds
  uuids,               \* how many uuids have been generated
  task_pc,             \* where each command is
  local,               \* the arguments and locals of each command
  task_calls,          \* how many commands each caller has invoked
  task_ret             \* what the last command of each caller returned

taskVars == <<tasks, job_map, jobs, uuids, task_pc, local, task_calls, task_ret>>

\* The state of everything but chat_send and subscribe_sse.
restVars == <<hookVars, parseVars, taskVars>>

sseVars ==
  <<sse_pc, text_lengths, tool_started, user_msg_ids, known_msg_ids, idle_ping_count,
    elapsed, emitted, sse_ret, reconnects, nudged, sentText, startSent, terminals, marked,
    redelivery, arm>>

chatOnly ==
  <<tokenGen, tokenExpired, refreshLock, ollama_enabled, provider, pc, access_token, round,
    conversation, feed, ret, attempt, frames, acc, toolIdx, tool_result_blocks, raw_output,
    roundRefreshes, precheck, sentToken, feedAtSend, lastExec, lastCall, stream, convAtRound,
    messages, lastReply, requests, seenGen, refreshCalls, staleRefreshes, restVars>>

vars == <<chatVars, sseVars, restVars>>

\* stream_response's locals at the start of a round.
\* No call of execute_tool yet.
NoExec == [round |-> 0, id |-> "", name |-> "", input |-> << >>, outcome |-> Outcome(<< >>, FALSE, FALSE)]

NewAcc ==
  [text_content |-> NoText, tool_uses |-> << >>, current_block_type |-> "",
   current_tool_id |-> "", current_tool_name |-> "", current_tool_input_json |-> NoText,
   stop_reason |-> ""]

ToolUse(id, name, input_json) == [id |-> id, name |-> name, input_json |-> input_json]

ChatInit ==
  /\ abort_flag = FALSE
  /\ tokenGen = 0
  /\ tokenExpired = FALSE
  /\ refreshLock = 0
  /\ ollama_enabled \in BOOLEAN
  /\ provider = [c \in Convs |-> "varied"]
  /\ pc = [c \in Convs |-> "idle"]
  /\ access_token = [c \in Convs |-> 0]
  /\ round = [c \in Convs |-> 0]
  /\ conversation = [c \in Convs |-> << >>]
  /\ feed = [c \in Convs |-> << >>]
  /\ ret = [c \in Convs |-> "none"]
  /\ attempt = [c \in Convs |-> 1]
  /\ frames = [c \in Convs |-> << >>]
  /\ acc = [c \in Convs |-> NewAcc]
  /\ toolIdx = [c \in Convs |-> 0]
  /\ tool_result_blocks = [c \in Convs |-> << >>]
  /\ raw_output = [c \in Convs |-> NoText]
  /\ roundRefreshes = [c \in Convs |-> 0]
  /\ precheck = [c \in Convs |-> FALSE]
  /\ sentToken = [c \in Convs |-> 0]
  /\ feedAtSend = [c \in Convs |-> 0]
  /\ lastExec = [c \in Convs |-> NoExec]
  /\ lastCall = [c \in Convs |-> [status |-> "", body |-> NoText, error |-> NoText]]
  /\ stream = [c \in Convs |-> << >>]
  /\ convAtRound = [c \in Convs |-> << >>]
  /\ messages = [c \in Convs |-> << >>]
  /\ lastReply = [c \in Convs |-> "none"]
  /\ requests = [c \in Convs |-> 0]
  /\ seenGen = [c \in Convs |-> 0]
  /\ refreshCalls = 0
  /\ staleRefreshes = 0

\* ------------------------------------------------------------------------
\* stream_response: one frame
\* ------------------------------------------------------------------------

PushToolUseFront(a) ==
  [a EXCEPT !.tool_uses = <<ToolUse(a.current_tool_id, a.current_tool_name,
                                    a.current_tool_input_json)>> \o @]
\* tool_uses.push((current_tool_id, current_tool_name, current_tool_input_json))
PushToolUse(a) ==
  [a EXCEPT !.tool_uses = Append(@, ToolUse(a.current_tool_id, a.current_tool_name,
                                             a.current_tool_input_json))]

\* The match on event_type: the accumulator after frame f.
PushFront(string, t) == t \o string
\* String::push_str
PushStr(string, t) == string \o t

FrameAcc(a, f) ==
  CASE f.event = "content_block_start" /\ ~f.bad ->
         IF f.kind = "tool_use"
         THEN [a EXCEPT !.current_block_type = f.kind, !.current_tool_id = f.id,
                        !.current_tool_name = f.name, !.current_tool_input_json = NoText]
         ELSE [a EXCEPT !.current_block_type = f.kind]
    [] f.event = "content_block_delta" /\ ~f.bad ->
         IF f.kind = "text_delta" THEN [a EXCEPT !.text_content = PushStr(@, f.text)]
         ELSE IF f.kind = "input_json_delta"
         THEN [a EXCEPT !.current_tool_input_json = PushStr(@, f.text)]
         ELSE a
    [] f.event = "content_block_stop" ->
         [(IF a.current_block_type = "tool_use" THEN PushToolUse(a) ELSE a)
            EXCEPT !.current_block_type = ""]
    [] f.event = "message_delta" /\ ~f.bad -> [a EXCEPT !.stop_reason = f.kind]
    [] OTHER -> a

\* The events frame f makes stream_response send.
FrameEvents(a, f) ==
  CASE f.event = "content_block_start" /\ ~f.bad /\ f.kind = "tool_use" ->
         <<EvToolStart(f.id, f.name)>>
    [] f.event = "content_block_delta" /\ ~f.bad /\ f.kind = "text_delta" ->
         <<EvDelta(f.text)>>
    [] f.event = "message_delta" /\ ~f.bad -> <<EvUsage>>
    [] f.event = "error" -> <<EvError(f.text)>>
    [] OTHER -> << >>

\* ------------------------------------------------------------------------
\* chat_send
\* ------------------------------------------------------------------------

Active(c) == pc[c] \notin {"idle", "returned"}

\* The streams the provider may answer round[c] with.
StreamsOffered(c, single) ==
  IF provider[c] = "loop" THEN {ScriptLoop}
  ELSE IF provider[c] = "args"
  THEN IF round[c] = 0 THEN ArgScripts ELSE {ScriptShortText}
  ELSE IF provider[c] = "bad"
  THEN IF round[c] = 0 THEN BadScripts ELSE {ScriptShortText}
  ELSE IF provider[c] = "long"
  THEN IF round[c] = 0 THEN {ScriptShortTool} ELSE {ScriptShortText}
  ELSE IF single
  THEN IF round[c] = 0 THEN Scripts
       ELSE IF round[c] < MaxVaried THEN {ScriptTextTools, ScriptText, ScriptToolNoUse}
       ELSE Scripts \ {ScriptLoop, ScriptTextTools}
  ELSE IF round[c] < MaxConcRounds THEN {ScriptShortTool} ELSE {ScriptShortText}

\* The tools' outcomes vary with the provider when one call runs.
Rich(c, single) == IF single THEN provider[c] ELSE "plain"

\* The ways a provider may answer a call that runs alone.
SingleProviders == {"varied", "loop", "args", "bad"}

Providers(single) == IF single THEN SingleProviders ELSE {"varied"}

sharedVars == <<abort_flag, tokenGen, tokenExpired, refreshLock, ollama_enabled, provider>>
streamVars == <<frames, acc>>
toolVars == <<toolIdx, tool_result_blocks, raw_output>>
refreshHist == <<roundRefreshes, seenGen, refreshCalls, staleRefreshes>>
roundHist ==
  <<precheck, sentToken, feedAtSend, lastExec, lastCall, stream, convAtRound, messages,
    lastReply, requests>>

\* The call returns: events es are sent, then Ok(()) or Err(e).
Return(c, es, result) ==
  /\ feed' = [feed EXCEPT ![c] = @ \o es]
  /\ ret' = [ret EXCEPT ![c] = result]
  /\ pc' = [pc EXCEPT ![c] = "returned"]

\* return Err(e) / the ? operator: no event is sent.
ReturnErr(c) == Return(c, << >>, "Err")

\* let _ = on_event.send(ChatStreamEvent::StreamEnd); Ok(())
Finish(c) == Return(c, <<EvStreamEnd>>, "Ok")

\* get_access_token, the two stores of the abort flag; the run is one with
\* a provider among providers.
CallWith(c, providers) ==
  /\ pc[c] = "idle"
  /\ \E p \in providers : provider' = [provider EXCEPT ![c] = p]
  /\ IF tokenExpired
     THEN /\ ReturnErr(c)
          /\ UNCHANGED <<abort_flag, access_token, conversation, messages>>
     ELSE /\ access_token' = [access_token EXCEPT ![c] = tokenGen]
          /\ abort_flag' = FALSE
          /\ \E m \in Transcripts(provider'[c]) :
               /\ conversation' = [conversation EXCEPT ![c] = m]
               /\ messages' = [messages EXCEPT ![c] = m]
          /\ pc' = [pc EXCEPT ![c] = "yield"]
          /\ UNCHANGED <<feed, ret>>
  /\ UNCHANGED <<tokenGen, tokenExpired, refreshLock, ollama_enabled, round, attempt,
                 streamVars, toolVars, refreshHist, precheck, sentToken, feedAtSend,
                 lastExec, lastCall, stream, convAtRound, lastReply, requests>>
  /\ UNCHANGED <<sseVars, restVars>>


CompactsAlways(c) == Len(conversation[c]) > HISTORY_COMPRESS_LEN
\* if ollama_settings.enabled && conversation.len() > 10
Compacts(c) == ollama_enabled /\ Len(conversation[c]) > HISTORY_COMPRESS_LEN

\* after yield_now: the second store, StreamStart; with the collaborator
\* enabled and a long history, OllamaStatus "compressing" and the call of
\* compress_history.
AfterYield(c) ==
  /\ pc[c] = "yield"
  /\ abort_flag' = FALSE
  /\ round' = [round EXCEPT ![c] = 0]
  /\ IF Compacts(c)
     THEN /\ feed' = [feed EXCEPT ![c] = @ \o <<EvStreamStart, EvOllamaStatus("compressing")>>]
          /\ pc' = [pc EXCEPT ![c] = "compress"]
     ELSE /\ feed' = [feed EXCEPT ![c] = Append(@, EvStreamStart)]
          /\ pc' = [pc EXCEPT ![c] = "round_top"]
  /\ UNCHANGED <<tokenGen, tokenExpired, refreshLock, ollama_enabled, provider, access_token,
                 conversation, ret, attempt, streamVars, toolVars, refreshHist, roundHist>>
  /\ UNCHANGED <<sseVars, restVars>>


\* compress_history returns: Ok replaces the transcript, Err sends
\* OllamaStatus "compression_failed"; then OllamaStatus "done".
Compress(c) ==
  /\ pc[c] = "compress"
  /\ \E reply \in OllamaReplies :
       LET res == compress_history(conversation[c], reply)
       IN /\ conversation' = [conversation EXCEPT ![c] = AfterCompress(@, res)]
          /\ feed' = [feed EXCEPT ![c] =
               @ \o (IF res.ok THEN << >> ELSE <<EvOllamaStatus("compression_failed")>>)
                 \o <<EvOllamaStatus("done")>>]
          /\ lastReply' = [lastReply EXCEPT ![c] = IF res.ok THEN "ok" ELSE "failed"]
  /\ pc' = [pc EXCEPT ![c] = "round_top"]
  /\ UNCHANGED <<sharedVars, access_token, round, ret, attempt, streamVars, toolVars,
                 refreshHist, precheck, sentToken, feedAtSend, lastExec, lastCall, stream,
                 convAtRound, messages, requests>>
  /\ UNCHANGED <<sseVars, restVars>>


LoopExitsLate(c) == round[c] >= MAX_TOOL_ROUNDS + 1
\* for round in 0..MAX_TOOL_ROUNDS
LoopExits(c) == round[c] >= MAX_TOOL_ROUNDS

\* The head of the loop: the range check, the abort check, the pre-check of
\* the credential in every round but the first.
RoundTop(c) ==
  /\ pc[c] = "round_top"
  /\ IF LoopExits(c) \/ abort_flag
     THEN /\ Finish(c)
          /\ UNCHANGED <<attempt, roundRefreshes, seenGen, roundHist>>
     ELSE /\ attempt' = [attempt EXCEPT ![c] = 1]
          /\ roundRefreshes' = [roundRefreshes EXCEPT ![c] = 0]
          /\ convAtRound' = [convAtRound EXCEPT ![c] = conversation[c]]
          /\ precheck' = [precheck EXCEPT ![c] = round[c] > 0 /\ tokenExpired]
          /\ IF round[c] > 0 /\ tokenExpired
             THEN /\ pc' = [pc EXCEPT ![c] = "lock_pre"]
                  /\ seenGen' = [seenGen EXCEPT ![c] = tokenGen]
             ELSE /\ pc' = [pc EXCEPT ![c] = "send"]
                  /\ UNCHANGED seenGen
          /\ UNCHANGED <<feed, ret, sentToken, feedAtSend, lastExec, lastCall, stream, messages,
                         lastReply>>
          /\ requests' = [requests EXCEPT ![c] = 0]
  /\ UNCHANGED <<sharedVars, access_token, round, conversation, streamVars, toolVars,
                 refreshCalls, staleRefreshes>>
  /\ UNCHANGED <<sseVars, restVars>>


\* let _guard = mutex.lock().await
AcquireLock(c) ==
  /\ pc[c] \in {"lock_pre", "lock_401"}
  /\ refreshLock = 0
  /\ refreshLock' = c
  /\ pc' = [pc EXCEPT ![c] = IF pc[c] = "lock_pre" THEN "refresh_pre" ELSE "refresh_401"]
  /\ UNCHANGED <<abort_flag, tokenGen, tokenExpired, ollama_enabled, provider, access_token,
                 round, conversation, feed, ret, attempt, streamVars, toolVars, refreshHist,
                 roundHist>>
  /\ UNCHANGED <<sseVars, restVars>>


RefreshCounts(c) ==
  /\ roundRefreshes' = [roundRefreshes EXCEPT ![c] = @ + 1]
  /\ refreshCalls' = refreshCalls + 1
  /\ staleRefreshes' =
       staleRefreshes + (IF seenGen[c] # tokenGen /\ ~tokenExpired THEN 1 ELSE 0)
  /\ UNCHANGED seenGen

TokenAfterRefreshOld(c) == access_token[c]
\* access_token = refresh_access_token(&app).await?
TokenAfterRefresh(c) == tokenGen + 1

Held(c) == c
\* drop(_guard), or the guard going out of scope when ? returns
Dropped(c) == 0

AttemptAfterRefreshFirst(c) == 1
\* After the refresh for a 401 the same request is sent once more, with ?.
AttemptAfterRefresh(c) == IF pc[c] = "refresh_401" THEN 2 ELSE 1

\* refresh_access_token succeeds: the store holds the new tokens and expiry.
RefreshOk(c) ==
  /\ pc[c] \in {"refresh_pre", "refresh_401"}
  /\ refreshLock = c
  /\ tokenGen' = tokenGen + 1
  /\ tokenExpired' = FALSE
  /\ access_token' = [access_token EXCEPT ![c] = TokenAfterRefresh(c)]
  /\ refreshLock' = Dropped(c)
  /\ attempt' = [attempt EXCEPT ![c] = AttemptAfterRefresh(c)]
  /\ pc' = [pc EXCEPT ![c] = "send"]
  /\ RefreshCounts(c)
  /\ UNCHANGED <<abort_flag, ollama_enabled, provider, round, conversation, feed, ret,
                 streamVars, toolVars, roundHist>>
  /\ UNCHANGED <<sseVars, restVars>>


\* refresh_access_token fails: ? returns the error, the guard is dropped.
RefreshFail(c) ==
  /\ pc[c] \in {"refresh_pre", "refresh_401"}
  /\ refreshLock = c
  /\ refreshLock' = Dropped(c)
  /\ ReturnErr(c)
  /\ RefreshCounts(c)
  /\ UNCHANGED <<abort_flag, tokenGen, tokenExpired, ollama_enabled, provider, access_token,
                 round, conversation, attempt, streamVars, toolVars, roundHist>>
  /\ UNCHANGED <<sseVars, restVars>>


\* The answers of the provider to a request: a status and a body, or no
\* answer at all (status ""); 401 is answered while refreshes remain.
Responses ==
  {[status |-> "200", body |-> NoText], [status |-> "500", body |-> <<"b">>],
   [status |-> "403", body |-> NoText], [status |-> "", body |-> NoText]}
    \cup (IF tokenGen < MaxGen THEN {[status |-> "401", body |-> <<"b">>]} ELSE {})

\* StatusCode::is_success
IsSuccess(status) == status = "200"

AUTH_EXPIRED == <<"AUTH_EXPIRED">>

StatusErrorAlwaysAuth(status, body) == AUTH_EXPIRED
\* if status.as_u16() == 401 { return Err("AUTH_EXPIRED") }
\* return Err(format!("Claude API error {}: {}", status, body))
StatusError(status, body) ==
  IF status = "401" THEN AUTH_EXPIRED ELSE <<"Claude API error ", status, ": ">> \o body

\* The Err of stream_response before it streams; NoText when it goes on.
EarlyError(r) ==
  IF r.status = "" THEN <<"Request failed">>
  ELSE IF ~IsSuccess(r.status) THEN StatusError(r.status, r.body)
  ELSE NoText

\* stream_response up to the status check: the request is sent with the
\* local access_token.  On success the stream begins; Err("AUTH_EXPIRED") of
\* the first request of the round leads chat_send to the refresh, every
\* other Err is returned.
SendRequest(c, single) ==
  /\ pc[c] = "send"
  /\ sentToken' = [sentToken EXCEPT ![c] = access_token[c]]
  /\ \E r \in Responses :
       LET e == EarlyError(r) IN
         /\ lastCall' = [lastCall EXCEPT ![c] =
                           [status |-> r.status, body |-> r.body, error |-> e]]
         /\ IF e = NoText
            THEN /\ \E s \in StreamsOffered(c, single) :
                      /\ frames' = [frames EXCEPT ![c] = s]
                      /\ stream' = [stream EXCEPT ![c] = s]
                 /\ acc' = [acc EXCEPT ![c] = NewAcc]
                 /\ pc' = [pc EXCEPT ![c] = "stream"]
                 /\ feedAtSend' = [feedAtSend EXCEPT ![c] = Len(feed[c])]
                 /\ UNCHANGED <<feed, ret, seenGen>>
            ELSE IF e = AUTH_EXPIRED /\ attempt[c] = 1
            THEN /\ pc' = [pc EXCEPT ![c] = "lock_401"]
                 /\ seenGen' = [seenGen EXCEPT ![c] = tokenGen]
                 /\ UNCHANGED <<feed, ret, streamVars, feedAtSend, stream>>
            ELSE /\ ReturnErr(c)
                 /\ UNCHANGED <<seenGen, streamVars, feedAtSend, stream>>
  /\ UNCHANGED <<sharedVars, access_token, round, conversation, attempt, toolVars,
                 roundRefreshes, refreshCalls, staleRefreshes, precheck, convAtRound, lastExec,
                 messages, lastReply>>
  /\ requests' = [requests EXCEPT ![c] = @ + 1]
  /\ UNCHANGED <<sseVars, restVars>>


AbortedNoText(a) ==
  [a EXCEPT !.text_content = NoText, !.tool_uses = << >>, !.stop_reason = "aborted"]
\* StreamedResponse { text_content, tool_uses: Vec::new(), stop_reason: "aborted" }
Aborted(a) == [a EXCEPT !.tool_uses = << >>, !.stop_reason = "aborted"]

\* while let Some(chunk) = stream.next().await: a chunk arrived.  The abort
\* flag is loaded first; chat_send breaks on "aborted" and sends StreamEnd.
ReadChunk(c) ==
  /\ pc[c] = "stream"
  /\ frames[c] # << >>
  /\ IF abort_flag
     THEN /\ acc' = [acc EXCEPT ![c] = Aborted(@)]
          /\ Finish(c)
          /\ UNCHANGED frames
     ELSE /\ acc' = [acc EXCEPT ![c] = FrameAcc(@, Head(frames[c]))]
          /\ feed' = [feed EXCEPT ![c] = @ \o FrameEvents(acc[c], Head(frames[c]))]
          /\ frames' = [frames EXCEPT ![c] = Tail(@)]
          /\ UNCHANGED <<ret, pc>>
  /\ UNCHANGED <<sharedVars, access_token, round, conversation, attempt, toolVars,
                 refreshHist, roundHist>>
  /\ UNCHANGED <<sseVars, restVars>>


\* chunk.map_err(...)?: the transport fails in the middle of the stream.
StreamError(c) ==
  /\ pc[c] = "stream"
  /\ frames[c] # << >>
  /\ ~abort_flag
  /\ ReturnErr(c)
  /\ UNCHANGED <<sharedVars, access_token, round, conversation, attempt, streamVars,
                 toolVars, refreshHist, roundHist>>
  /\ UNCHANGED <<sseVars, restVars>>


\* The assistant message: the text, if any, then one tool_use per call.
AssistantBlocks(text_content, tool_uses) ==
  (IF text_content # NoText THEN <<TextBlock(text_content)>> ELSE << >>)
    \o [i \in 1..Len(tool_uses) |->
          ToolUseBlock(tool_uses[i].id, tool_uses[i].name, tool_uses[i].input_json)]

NeedsToolsAnyReason(a) == a.tool_uses # << >>
\* result.stop_reason == "tool_use" && !result.tool_uses.is_empty()
NeedsTools(a) == a.stop_reason = "tool_use" /\ a.tool_uses # << >>

\* The stream ended: stream_response returns Ok; chat_send either appends the
\* assistant message and starts the first tool, or breaks and finishes.
EndOfStream(c) ==
  /\ pc[c] = "stream"
  /\ frames[c] = << >>
  /\ IF NeedsTools(acc[c])
     THEN /\ conversation' = [conversation EXCEPT ![c] = Append(@,
               BlocksMessage("assistant",
                  AssistantBlocks(acc[c].text_content, acc[c].tool_uses)))]
          /\ toolIdx' = [toolIdx EXCEPT ![c] = 1]
          /\ tool_result_blocks' = [tool_result_blocks EXCEPT ![c] = << >>]
          /\ pc' = [pc EXCEPT ![c] = "exec"]
          /\ UNCHANGED <<feed, ret>>
     ELSE /\ Finish(c)
          /\ UNCHANGED <<conversation, toolIdx, tool_result_blocks>>
  /\ UNCHANGED <<sharedVars, access_token, round, attempt, streamVars, raw_output,
                 refreshHist, roundHist>>
  /\ UNCHANGED <<sseVars, restVars>>


\* The end of one pass of the tool loop: ToolEnd, the tool_result block; after
\* the last call the user message is pushed and the next round begins.
FirstCall(c) == acc[c].tool_uses[1]
\* for (id, name, input_json) in &result.tool_uses: the call of this pass
CurrentCall(c) == acc[c].tool_uses[toolIdx[c]]

Record(c, output, is_error) ==
  LET tu == CurrentCall(c)
      blocks == Append(tool_result_blocks[c], ToolResultBlock(tu.id, output, is_error))
  IN /\ feed' = [feed EXCEPT ![c] = Append(@, EvToolEnd(tu.id, output))]
     /\ tool_result_blocks' = [tool_result_blocks EXCEPT ![c] = blocks]
     /\ IF toolIdx[c] = Len(acc[c].tool_uses)
        THEN /\ conversation' = [conversation EXCEPT ![c] =
                                   Append(@, BlocksMessage("user", blocks))]
             /\ round' = [round EXCEPT ![c] = @ + 1]
             /\ pc' = [pc EXCEPT ![c] = "round_top"]
             /\ UNCHANGED toolIdx
        ELSE /\ toolIdx' = [toolIdx EXCEPT ![c] = @ + 1]
             /\ pc' = [pc EXCEPT ![c] = "exec"]
             /\ UNCHANGED <<conversation, round>>

\* execute_tool returned; a large output of a successful call goes to
\* ollama::summarize when ollama is enabled.
ExecTool(c, single) ==
  /\ pc[c] = "exec"
  /\ LET tu == acc[c].tool_uses[toolIdx[c]]
         input == ParseInput(tu.input_json)
     IN \E o \in ToolOutcomes(tu.name, input, Rich(c, single)) :
          /\ lastExec' = [lastExec EXCEPT ![c] =
                            [round |-> round[c], id |-> tu.id, name |-> tu.name, input |-> input,
                             outcome |-> o]]
          /\ IF o.panicked
             THEN /\ pc' = [pc EXCEPT ![c] = "returned"]
                  /\ ret' = [ret EXCEPT ![c] = "Panic"]
                  /\ UNCHANGED <<feed, conversation, round, toolVars>>
             ELSE IF ollama_enabled /\ ~o.is_error /\ ByteLen(o.output) > SUMMARIZE_THRESHOLD
             THEN /\ feed' = [feed EXCEPT ![c] = Append(@, EvOllamaStatus("summarizing"))]
                  /\ raw_output' = [raw_output EXCEPT ![c] = o.output]
                  /\ pc' = [pc EXCEPT ![c] = "summarize"]
                  /\ UNCHANGED <<ret, conversation, round, toolIdx, tool_result_blocks>>
             ELSE /\ Record(c, o.output, o.is_error)
                  /\ UNCHANGED <<ret, raw_output>>
  /\ UNCHANGED <<sharedVars, access_token, attempt, streamVars, refreshHist,
                 precheck, sentToken, feedAtSend, lastCall, stream, convAtRound, messages,
                 lastReply, requests>>
  /\ UNCHANGED <<sseVars, restVars>>


SummarizedAlways(raw, res) == <<"S">> \o res.text
\* Ok(s) => format!("[Summarized]\n{}", s), Err(_) => raw_output
Summarized(raw, res) == IF res.ok THEN <<"S">> \o res.text ELSE raw

\* ollama::summarize returned: Ok(s) or Err(_), which keeps the raw output.
Summarize(c) ==
  /\ pc[c] = "summarize"
  /\ \E reply \in OllamaReplies :
       /\ Record(c, Summarized(raw_output[c], summarize(raw_output[c], reply)), FALSE)
       /\ lastReply' = [lastReply EXCEPT ![c] = IF reply.ok THEN "ok" ELSE "failed"]
  /\ UNCHANGED <<sharedVars, access_token, ret, attempt, streamVars, raw_output,
                 refreshHist, precheck, sentToken, feedAtSend, lastExec, lastCall, stream,
                 convAtRound, messages, requests>>
  /\ UNCHANGED <<sseVars, restVars>>


\* abort_stream
Abort ==
  /\ ~abort_flag
  /\ \E c \in Convs : Active(c)
  /\ abort_flag' = TRUE
  /\ UNCHANGED <<tokenGen, tokenExpired, refreshLock, ollama_enabled, provider, pc, access_token,
                 round, conversation, feed, ret, attempt, streamVars, toolVars,
                 refreshHist, roundHist>>
  /\ UNCHANGED <<sseVars, restVars>>


\* Time passes oauth_expires.
Expire ==
  /\ ~tokenExpired
  /\ tokenGen < MaxGen
  /\ \E c \in Convs : pc[c] # "returned"
  /\ tokenExpired' = TRUE
  /\ UNCHANGED <<abort_flag, tokenGen, refreshLock, ollama_enabled, provider, pc, access_token,
                 round, conversation, feed, ret, attempt, streamVars, toolVars,
                 refreshHist, roundHist>>
  /\ UNCHANGED <<sseVars, restVars>>


Call(c, single) == CallWith(c, Providers(single))

\* chat_send called with a long transcript.
CallLong(c) == CallWith(c, {"long"})

ChatStep(c, single) ==
  \/ Call(c, single)
  \/ AfterYield(c)
  \/ RoundTop(c)
  \/ AcquireLock(c)
  \/ RefreshOk(c)
  \/ RefreshFail(c)
  \/ SendRequest(c, single)
  \/ ReadChunk(c)
  \/ StreamError(c)
  \/ EndOfStream(c)
  \/ ExecTool(c, single)

\* ------------------------------------------------------------------------
\* subscribe_sse (bridge path): bus events
\* ------------------------------------------------------------------------

SessionId == "mine"

\* message_id: None
NoId == ""

\* One frame of the bus: the envelope's payload.type and the fields the
\* subscription reads from payload.properties.  bad is "" for a frame that
\* parses, "frame" for a block without a data line or with invalid JSON,
\* "part" for a part that does not deserialize.
Envelope(type, session) ==
  [type |-> type, session |-> session, mid |-> NoId, part |-> "", ptype |-> "",
   hasText |-> FALSE, text |-> NoText, call |-> "", tool |-> "", agent |-> "",
   status |-> "", role |-> "", tokens |-> FALSE, error |-> FALSE, bad |-> ""]

\* message.part.updated with a part of type "text" or "reasoning"
TextPart(session, mid, part, ptype, text) ==
  [Envelope("message.part.updated", session) EXCEPT
     !.mid = mid, !.part = part, !.ptype = ptype, !.hasText = TRUE, !.text = text]

\* message.part.updated with a part of type "tool"
ToolPart(session, mid, call, tool, agent, status) ==
  [Envelope("message.part.updated", session) EXCEPT
     !.mid = mid, !.part = call, !.ptype = "tool", !.call = call, !.tool = tool,
     !.agent = agent, !.status = status]

StepStart(session, mid) ==
  [Envelope("message.part.updated", session) EXCEPT !.mid = mid, !.part = "s1",
                                                      !.ptype = "step-start"]

MessageUpdated(session, role, id, tokens, error) ==
  [Envelope("message.updated", session) EXCEPT
     !.mid = id, !.role = role, !.tokens = tokens, !.error = error]

SessionIdle(session) == Envelope("session.idle", session)

ServerConnected == Envelope("server.connected", "")

BadFrame == [Envelope("message.part.updated", SessionId) EXCEPT !.bad = "frame"]

BadPart == [Envelope("message.part.updated", SessionId) EXCEPT !.bad = "part"]

\* A frame of an event type subscribe_sse does not know.
OtherType == Envelope("session.updated", SessionId)

PartIds == {"p0", "p1", "p2", "pu"}

\* The text-bearing part events of the model: cumulative snapshots of the
\* answer (p1) and of the reasoning (p2) of the new message m1, among them
\* one that does not extend the others; a part of the known message m0, of
\* the user's message mu, of another session that reuses the id p1, and a
\* part without text.
TextEvents ==
  { TextPart(SessionId, "m1", "p1", "text", <<"a">>),
    TextPart(SessionId, "m1", "p1", "text", <<"a", "b">>),
    TextPart(SessionId, "m1", "p1", "text", <<"b">>),
    TextPart(SessionId, "m1", "p1", "text", <<"C3", "A9">>),
    TextPart(SessionId, "m1", "p2", "reasoning", <<"c">>),
    TextPart(SessionId, "m1", "p2", "reasoning", <<"c", "d">>),
    TextPart(SessionId, "m0", "p0", "text", <<"h">>),
    TextPart(SessionId, "mu", "pu", "text", <<"q">>),
    TextPart("other", "m9", "p1", "text", <<"x", "y", "z">>),
    [TextPart(SessionId, "m1", "p1", "text", NoText) EXCEPT !.hasText = FALSE] }

ToolEvents ==
  { ToolPart(SessionId, "m1", "t1", "bash", "", "running"),
    ToolPart(SessionId, "m1", "t1", "bash", "", "completed"),
    ToolPart(SessionId, "m1", "t1", "bash", "", "error"),
    ToolPart(SessionId, "m1", "t2", "mcp_task", "oracle", "running"),
    ToolPart("other", "m9", "t1", "bash", "", "running"),
    StepStart(SessionId, "m1") }

PartEvents == TextEvents \cup ToolEvents \cup {BadPart}

MessageEvents ==
  { MessageUpdated(SessionId, "user", "mu", FALSE, FALSE),
    MessageUpdated(SessionId, "assistant", "m1", TRUE, FALSE),
    MessageUpdated(SessionId, "assistant", "m1", FALSE, TRUE),
    MessageUpdated(SessionId, "assistant", "m0", FALSE, TRUE),
    MessageUpdated(SessionId, "assistant", "m0", TRUE, FALSE),
    MessageUpdated("other", "assistant", "m9", TRUE, TRUE),
    SessionIdle(SessionId),
    SessionIdle("other"),
    ServerConnected,
    BadFrame }

\* What the bus may deliver: everything, or (quiet) the few events of a
\* session that is mostly silent.
BusEvents(quiet) ==
  IF quiet
  THEN { TextPart(SessionId, "m1", "p1", "text", <<"a">>),
         TextPart("other", "m9", "p1", "text", <<"x", "y", "z">>),
         ToolPart(SessionId, "m1", "t1", "bash", "", "running"),
         MessageUpdated(SessionId, "user", "mu", FALSE, FALSE),
         MessageUpdated(SessionId, "assistant", "m1", FALSE, TRUE),
         MessageUpdated("other", "assistant", "m9", TRUE, TRUE),
         SessionIdle("other"),
         SessionIdle(SessionId) }
  ELSE PartEvents \cup MessageEvents

\* ------------------------------------------------------------------------
\* subscribe_sse: the state of one subscription and the frame handlers
\* ------------------------------------------------------------------------

SseInit ==
  /\ sse_pc = "top"
  /\ text_lengths = [p \in PartIds |-> 0]
  /\ tool_started = {}
  /\ user_msg_ids = {}
  /\ known_msg_ids = {"m0"}
  /\ idle_ping_count = 0
  /\ elapsed = 0
  /\ emitted = << >>
  /\ sse_ret = "none"
  /\ reconnects = 0
  /\ nudged = 0
  /\ sentText = [p \in PartIds |-> NoText]
  /\ startSent = {}
  /\ terminals = 0
  /\ marked = {}
  /\ redelivery = FALSE
  /\ arm = ""

\* The locals of subscribe_sse at the start of a step, with what the step
\* has sent (out), whether it has returned (done) and whether it has sent
\* a nudge; panicked when the task has panicked.
Cur ==
  [text_lengths |-> text_lengths, tool_started |-> tool_started,
   user_msg_ids |-> user_msg_ids, idle_ping_count |-> idle_ping_count,
   elapsed |-> elapsed, out |-> << >>, done |-> FALSE, nudged |-> 0,
   panicked |-> FALSE, redelivery |-> FALSE, arm |-> "",
   sentText |-> sentText]

\* Instant::elapsed() after d more seconds (the model stops counting at
\* IDLE_TIMEOUT).
Later(t, d) == IF t + d >= IDLE_TIMEOUT THEN IDLE_TIMEOUT ELSE t + d

AnySession(session) == TRUE
\* part.session_id == session_id, msg_session == session_id, idle_session ==
\* session_id
OwnSession(session) == session = SessionId

ActivityKeepsCount(st) == [st EXCEPT !.elapsed = 0]
\* last_session_activity = Instant::now(); idle_ping_count = 0
Activity(st) == [st EXCEPT !.elapsed = 0, !.idle_ping_count = 0]

LongerOrEqual(full_text, prev_len) == Len(full_text) >= prev_len
\* full_text.len() > prev_len
Longer(full_text, prev_len) == Len(full_text) > prev_len

\* &full_text[prev_len..]
Suffix(full_text, prev_len) == SubSeq(full_text, prev_len + 1, Len(full_text))

\* str::is_char_boundary: index 0, the length, and every index whose byte is
\* not a continuation byte.
IsCharBoundary(text, index) ==
  \/ index = 0
  \/ index = Len(text)
  \/ index < Len(text) /\ text[index + 1] # "A9"

\* The "text" and "reasoning" arms: the suffix of the snapshot beyond the
\* length held for the part id is sent, and the length is recorded.  The
\* slice &full_text[prev_len..] panics when prev_len is not a character
\* boundary of the snapshot.
Snapshot(st, e) ==
  LET prev_len == st.text_lengths[e.part]
      delta == Suffix(e.text, prev_len)
  IN  IF e.hasText /\ Longer(e.text, prev_len)
      THEN IF ~IsCharBoundary(e.text, prev_len) THEN [st EXCEPT !.panicked = TRUE]
           ELSE
           [st EXCEPT !.out = Append(@, IF e.ptype = "text" THEN EvDelta(delta)
                                                             ELSE EvReasoning(delta)),
                      !.text_lengths[e.part] = Len(e.text),
                      !.sentText[e.part] = @ \o delta]
      ELSE st

\* The Status event that precedes the ToolStart of a delegation.
DelegationStatus(tool, agent) ==
  IF tool \notin {"mcp_task", "mcp_delegate_task"} THEN << >>
  ELSE IF agent \in {"sum", "mer", "visual-engineering"} THEN <<EvStatus("Summer")>>
  ELSE IF agent = "oracle" THEN <<EvStatus("Oracle")>>
  ELSE IF agent = "explore" THEN <<EvStatus("exploring")>>
  ELSE IF agent = "librarian" THEN <<EvStatus("researching")>>
  ELSE IF agent = "frost" THEN <<EvStatus("Frost")>>
  ELSE IF agent = "spring" THEN <<EvStatus("Spring")>>
  ELSE <<EvStatus("subagent")>>

\* The ToolStart is sent whether or not the call has an entry.
StartAlways(st, e, status) ==
  [st EXCEPT !.out = @ \o status \o <<EvToolStart(e.call, e.tool)>>,
             !.tool_started = @ \cup {e.call}]

\* Entry::Vacant(e) => { send ToolStart; e.insert(true) }
StartOnce(st, e, status) ==
  IF e.call \in st.tool_started THEN st
  ELSE [st EXCEPT !.out = @ \o status \o <<EvToolStart(e.call, e.tool)>>,
                  !.tool_started = @ \cup {e.call}]

\* The "tool" arm.
ToolState(st, e) ==
  CASE e.status = "running" -> StartOnce(st, e, DelegationStatus(e.tool, e.agent))
    [] e.status = "completed" ->
         [StartOnce(st, e, << >>) EXCEPT !.out = Append(@, EvToolEnd(e.call, <<"o">>))]
    [] e.status = "error" -> [st EXCEPT !.out = Append(@, EvToolEnd(e.call, <<"[error]">>))]
    [] OTHER -> st

\* "message.part.updated"
HandlePart(st, e) ==
  IF e.bad = "part" THEN [st EXCEPT !.arm = "bad"]
  ELSE IF ~OwnSession(e.session) THEN [st EXCEPT !.arm = "other"]
  ELSE LET st1 == [Activity(st) EXCEPT !.arm = "part"]
       IN  IF e.mid # NoId /\ (e.mid \in known_msg_ids \/ e.mid \in st.user_msg_ids)
           THEN [st1 EXCEPT !.arm = "known"]
           ELSE CASE e.ptype \in {"text", "reasoning"} -> Snapshot(st1, e)
                  [] e.ptype = "tool" -> ToolState(st1, e)
                  [] e.ptype = "step-start" ->
                       [st1 EXCEPT !.out = Append(@, EvStatus("thinking"))]
                  [] OTHER -> st1

\* "message.updated"
HandleMessage(st, e) ==
  IF ~OwnSession(e.session) THEN [st EXCEPT !.arm = "other"]
  ELSE LET st1 == [Activity(st) EXCEPT !.arm = "message"]
           st2 == IF e.role = "user" /\ e.mid # NoId
                  THEN [st1 EXCEPT !.user_msg_ids = @ \cup {e.mid}]
                  ELSE st1
           st3 == IF e.tokens THEN [st2 EXCEPT !.out = Append(@, EvUsage)] ELSE st2
       IN  IF e.role = "assistant" /\ e.error /\ e.mid \notin known_msg_ids
           THEN [st3 EXCEPT !.out = Append(@, EvStreamEnd), !.done = TRUE]
           ELSE st3

\* "session.idle"
HandleIdle(st, e) ==
  IF OwnSession(e.session)
  THEN [st EXCEPT !.out = Append(@, EvStreamEnd), !.done = TRUE, !.arm = "idle"]
  ELSE [st EXCEPT !.arm = "other"]

ParsesAlways(e) == TRUE
\* The frame has a data line and serde_json::from_str::<SseEnvelope> is Ok.
Parses(e) == e.bad # "frame"

\* One frame taken from the buffer.
HandleFrame(st, e) ==
  IF ~Parses(e) THEN [st EXCEPT !.arm = "bad"]
  ELSE CASE e.type = "message.part.updated" -> HandlePart(st, e)
         [] e.type = "message.updated" -> HandleMessage(st, e)
         [] e.type = "session.idle" -> HandleIdle(st, e)
         [] OTHER -> [st EXCEPT !.arm = "ignored"]

MaybePingEarly(st) ==
  IF st.idle_ping_count < MAX_IDLE_PINGS
  THEN [st EXCEPT !.idle_ping_count = @ + 1, !.nudged = @ + 1, !.elapsed = 0]
  ELSE st
\* if idle_ping_count < MAX_IDLE_PINGS && last_session_activity.elapsed() >=
\* IDLE_TIMEOUT { idle_ping_count += 1; send_idle_ping; last_session_activity = now }
MaybePing(st) ==
  IF st.idle_ping_count < MAX_IDLE_PINGS /\ st.elapsed >= IDLE_TIMEOUT
  THEN [st EXCEPT !.idle_ping_count = @ + 1, !.nudged = @ + 1, !.elapsed = 0]
  ELSE st

SleepFresh(st) ==
  [st EXCEPT !.elapsed = Later(@, RECONNECT_DELAY),
             !.text_lengths = [p \in PartIds |-> 0], !.idle_ping_count = 0]
\* tokio::time::sleep(RECONNECT_DELAY).await; continue 'reconnect
Sleep(st) == [st EXCEPT !.elapsed = Later(@, RECONNECT_DELAY)]

\* ------------------------------------------------------------------------
\* subscribe_sse: the steps between two awaits
\* ------------------------------------------------------------------------

\* StreamEnd and Error events in out.
Terminals(out) == Cardinality({i \in DOMAIN out : out[i].ev \in {"StreamEnd", "Error"}})

\* The call ids of the ToolStart events in out.
Started(out) == {out[i].id : i \in {i \in DOMAIN out : out[i].ev = "ToolStart"}}

\* The locals and the channel after a step.
Commit(st) ==
  /\ text_lengths' = st.text_lengths
  /\ tool_started' = st.tool_started
  /\ user_msg_ids' = st.user_msg_ids
  /\ idle_ping_count' = st.idle_ping_count
  /\ elapsed' = st.elapsed
  /\ emitted' = st.out
  /\ nudged' = st.nudged
  /\ sentText' = st.sentText
  /\ startSent' = startSent \cup Started(st.out)
  /\ terminals' = terminals + Terminals(st.out)
  /\ redelivery' = st.redelivery
  /\ arm' = st.arm
  /\ UNCHANGED <<known_msg_ids, chatOnly>>

\* return Ok(())
SseReturn(st) ==
  /\ Commit(st)
  /\ sse_pc' = "returned"
  /\ sse_ret' = "Ok"

\* Top of 'reconnect: the abort flag, then the exhausted nudges, then the
\* connection attempt.
SseTop ==
  /\ sse_pc = "top"
  /\ IF abort_flag THEN SseReturn(Cur)
     ELSE IF idle_ping_count >= MAX_IDLE_PINGS /\ elapsed >= IDLE_TIMEOUT
     THEN SseReturn([Cur EXCEPT !.out = <<EvError(<<"e">>)>>])
     ELSE Commit(Cur) /\ sse_pc' = "connect" /\ UNCHANGED sse_ret
  /\ UNCHANGED <<abort_flag, reconnects, marked>>

ReconnectGivesUp(st, limit) ==
  /\ reconnects < limit
  /\ SseReturn(Sleep(st))
  /\ reconnects' = reconnects + 1
  /\ UNCHANGED <<abort_flag, marked>>
\* The connection is lost or refused: an optional nudge, the delay, and back
\* to the top of 'reconnect.
Reconnect(st, limit) ==
  /\ reconnects < limit
  /\ Commit(Sleep(st))
  /\ sse_pc' = "top"
  /\ reconnects' = reconnects + 1
  /\ UNCHANGED <<abort_flag, sse_ret, marked>>

\* send().await fails.
ConnectFail ==
  /\ sse_pc = "connect"
  /\ Reconnect(MaybePing(Cur), MaxReconnects + MaxRefused)

\* !resp.status().is_success()
HttpFail ==
  /\ sse_pc = "connect"
  /\ Reconnect(MaybePing(Cur), MaxReconnects + MaxRefused)

\* The connection is up: a new stream and an empty buffer.
ConnectOk ==
  /\ sse_pc = "connect"
  /\ Commit(Cur)
  /\ sse_pc' = "loop"
  /\ UNCHANGED <<abort_flag, sse_ret, reconnects, marked>>

\* Top of the read loop: the abort flag, then the read with its timeout.
LoopTop ==
  /\ sse_pc = "loop"
  /\ IF abort_flag THEN SseReturn(Cur)
     ELSE Commit(Cur) /\ sse_pc' = "await" /\ UNCHANGED sse_ret
  /\ UNCHANGED <<abort_flag, reconnects, marked>>

\* Ok(Some(Ok(chunk))): the chunk completes one frame, which is handled.
DeliverEvent(e, quiet) ==
  LET mark == [event |-> e, conn |-> reconnects]
      again == \E m \in marked : m.event = e
      st == [HandleFrame(Cur, e) EXCEPT !.redelivery = again]
  IN  /\ sse_pc = "await"
      /\ Commit(st)
      /\ sse_pc' = IF st.panicked THEN "panicked"
                   ELSE IF st.done THEN "returned" ELSE "loop"
      /\ sse_ret' = IF st.done THEN "Ok" ELSE sse_ret
      /\ marked' \in IF quiet \/ marked # {} \/ e \notin TextEvents
                     THEN {marked} ELSE {marked, {mark}}
      /\ UNCHANGED <<abort_flag, reconnects>>

Deliver(quiet) == \E e \in BusEvents(quiet) : DeliverEvent(e, quiet)

\* Err(_) of the timeout: READ_TIMEOUT seconds without a chunk.
ReadTimeout ==
  /\ sse_pc = "await"
  /\ Commit(MaybePing([Cur EXCEPT !.elapsed = Later(@, READ_TIMEOUT)]))
  /\ sse_pc' = "loop"
  /\ UNCHANGED <<abort_flag, sse_ret, reconnects, marked>>

\* Ok(None): the stream ended.
StreamClosed ==
  /\ sse_pc = "await"
  /\ Reconnect(Cur, MaxReconnects)

\* Ok(Some(Err(e))): the stream failed.
ChunkError ==
  /\ sse_pc = "await"
  /\ Reconnect(Cur, MaxReconnects)

\* abort_opencode while the subscription runs.
SseAbort ==
  /\ ~abort_flag
  /\ sse_pc \notin {"returned", "panicked"}
  /\ abort_flag' = TRUE
  /\ UNCHANGED <<chatOnly, sseVars>>

\* The events of a bus that sends bad frames among the others.
BadBusEvents == BusEvents(TRUE) \cup {BadFrame, BadPart, OtherType, ServerConnected}

\* The steps of a subscription on that bus.
BadBusStep ==
  \/ SseTop
  \/ ConnectOk
  \/ LoopTop
  \/ \E e \in BadBusEvents : DeliverEvent(e, TRUE)
  \/ ReadTimeout
  \/ StreamClosed

\* The events of a mostly silent bus that also repeats events of the known
\* message m0 and of the user's message mu.
PingBusEvents ==
  BusEvents(TRUE) \cup
    { TextPart(SessionId, "m0", "p0", "text", <<"h">>),
      TextPart(SessionId, "mu", "pu", "text", <<"q">>),
      MessageUpdated(SessionId, "assistant", "m0", FALSE, TRUE) }

\* The steps of a subscription on that bus.
PingBusStep ==
  \/ SseTop
  \/ ConnectOk
  \/ ConnectFail
  \/ HttpFail
  \/ LoopTop
  \/ \E e \in PingBusEvents : DeliverEvent(e, TRUE)
  \/ ReadTimeout
  \/ StreamClosed
  \/ ChunkError

\* The steps of a subscription whose connection attempts succeed and whose
\* bus is never silent for READ_TIMEOUT seconds.
BusStep(quiet) ==
  \/ SseTop
  \/ ConnectOk
  \/ LoopTop
  \/ Deliver(quiet)
  \/ StreamClosed
  \/ ChunkError

SseStep(quiet) ==
  \/ BusStep(quiet)
  \/ ConnectFail
  \/ HttpFail
  \/ ReadTimeout

\* One chat_send call.
\* ------------------------------------------------------------------------
\* hooks.rs: HookGuard::check
\* ------------------------------------------------------------------------

\* Option<String>::None
Absent == ""

\* HookResult
HookResult(action, message, rule) ==
  [action |-> action, message |-> message, rule |-> rule, error |-> FALSE]

\* HookResult::allow()
allow == HookResult("allow", Absent, Absent)

NoResult == HookResult("", Absent, Absent)

\* What check.py may print: nothing, white space, text that is not JSON,
\* JSON without an action, bytes that are not UTF-8, and results.
Printed(utf8, text) == [utf8 |-> utf8, text |-> text]
Doc(fields) == <<"{">> \o fields \o <<"}">>
Stdouts ==
  { Printed(TRUE, << >>),
    Printed(TRUE, <<" ", "LF">>),
    Printed(TRUE, <<"o", "k">>),
    Printed(FALSE, Doc(<<"action", "block">>)),
    Printed(TRUE, Doc(<<"message", "m">>)),
    Printed(TRUE, <<"{", "action", "block">>),
    Printed(TRUE, Doc(<<"action", "allow">>)),
    Printed(TRUE, <<" ">> \o Doc(<<"action", "block", "message", "m", "rule", "r">>) \o <<"LF">>),
    Printed(TRUE, Doc(<<"action", "warn", "message", "m">>)),
    Printed(TRUE, Doc(<<"action", "deny">>)) }

\* Seconds check.py may run for before it exits.
RunTimes == {0, HOOK_TIMEOUT_SECS - 1, HOOK_TIMEOUT_SECS, HOOK_TIMEOUT_SECS + 1}

\* check.py and its surroundings: whether the file exists, python3 can be
\* spawned, the script reads its stdin, it exits and when, wait_with_output
\* succeeds, with what status and what output.
Script(exists, spawns, reads, exits, runs, waits, status, stdout) ==
  [exists |-> exists, spawns |-> spawns, reads |-> reads, exits |-> exits, runs |-> runs,
   waits |-> waits, status |-> status, stdout |-> stdout]

NoScript == Script(FALSE, FALSE, FALSE, FALSE, 0, TRUE, 0, Printed(TRUE, << >>))

ScriptsOnDisk ==
  {NoScript, Script(TRUE, FALSE, FALSE, FALSE, 0, TRUE, 0, Printed(TRUE, << >>))}
  \cup {Script(TRUE, TRUE, reads, exits, runs, TRUE, status, out) :
          reads \in BOOLEAN, exits \in BOOLEAN, runs \in RunTimes, status \in {0, 1},
          out \in Stdouts}
  \cup {Script(TRUE, TRUE, TRUE, TRUE, 0, FALSE, 0, Printed(TRUE, << >>))}

IsSpace(t) == t \in {" ", "LF"}

\* str::trim
RECURSIVE TrimStart(_)
TrimStart(t) == IF t # << >> /\ IsSpace(Head(t)) THEN TrimStart(Tail(t)) ELSE t
RECURSIVE TrimEnd(_)
TrimEnd(t) ==
  IF t # << >> /\ IsSpace(t[Len(t)]) THEN TrimEnd(SubSeq(t, 1, Len(t) - 1)) ELSE t
Trim(t) == TrimEnd(TrimStart(t))

\* The value of a key among the fields of a document, Absent when it is not there.
RECURSIVE FieldOf(_, _)
FieldOf(fields, key) ==
  IF Len(fields) < 2 THEN Absent
  ELSE IF fields[1] = key THEN fields[2]
  ELSE FieldOf(SubSeq(fields, 3, Len(fields)), key)

\* serde_json::from_str::<HookResult>: an object with an action.
ParsesAsResult(t) ==
  /\ Len(t) >= 4
  /\ t[1] = "{" /\ t[Len(t)] = "}"
  /\ Len(t) % 2 = 0
  /\ FieldOf(SubSeq(t, 2, Len(t) - 1), "action") # Absent

FromStr(t) ==
  LET fields == SubSeq(t, 2, Len(t) - 1)
  IN HookResult(FieldOf(fields, "action"), FieldOf(fields, "message"), FieldOf(fields, "rule"))

StatusIgnored(status) == TRUE
\* output.status.success()
Success(status) == status = 0

\* What check makes of the output of a check.py that has exited.
Verdict(status, out) ==
  IF ~Success(status) THEN allow
  ELSE IF ~out.utf8 THEN allow
  ELSE IF Trim(out.text) = << >> THEN allow
  ELSE IF ParsesAsResult(Trim(out.text)) THEN FromStr(Trim(out.text))
  ELSE allow

HookInit ==
  /\ hook_pc = "idle"
  /\ script = NoScript
  /\ hook_input = "fits"
  /\ hook_clock = 0
  /\ hook_ret = NoResult

HookReturn(result) ==
  /\ hook_pc' = "returned"
  /\ hook_ret' = result

\* check.py has exited by now.
Exited == script.exits /\ script.runs <= hook_clock

\* write_all cannot go on: the input does not fit the buffer of the pipe and
\* the script, still running, does not read it.
WriteBlocked == ~script.reads /\ hook_input = "exceeds" /\ ~Exited

\* check: the script is looked for and python3 is spawned.
Check ==
  /\ hook_pc = "idle"
  /\ \E s \in ScriptsOnDisk, size \in {"fits", "exceeds"} :
       /\ script' = s
       /\ hook_input' = size
       /\ IF ~s.exists \/ ~s.spawns
          THEN HookReturn(allow)
          ELSE hook_pc' = "write" /\ UNCHANGED hook_ret
  /\ UNCHANGED <<hook_clock, chatVars, sseVars, parseVars, taskVars>>

\* stdin.write_all(hook_input.as_bytes()): Ok, or Err when the script has
\* gone without reading (the child is killed and the call allowed).
WriteAll ==
  /\ hook_pc = "write"
  /\ \/ /\ script.reads \/ hook_input = "fits"
        /\ hook_pc' = "wait"
        /\ UNCHANGED hook_ret
     \/ /\ ~script.reads /\ Exited
        /\ HookReturn(allow)
  /\ UNCHANGED <<script, hook_input, hook_clock, chatVars, sseVars, parseVars, taskVars>>

\* A second passes while the call is blocked in write_all or in recv_timeout.
Tick ==
  /\ hook_clock < MaxClock
  /\ \/ hook_pc = "write" /\ WriteBlocked
     \/ hook_pc = "wait" /\ hook_clock < HOOK_TIMEOUT_SECS /\ ~Exited
  /\ hook_clock' = hook_clock + 1
  /\ UNCHANGED <<hook_pc, script, hook_input, hook_ret, chatVars, sseVars, parseVars, taskVars>>

\* rx.recv_timeout gives the result of wait_with_output.
Recv ==
  /\ hook_pc = "wait"
  /\ Exited
  /\ HookReturn(IF script.waits THEN Verdict(script.status, script.stdout) ELSE allow)
  /\ UNCHANGED <<script, hook_input, hook_clock, chatVars, sseVars, parseVars, taskVars>>

\* rx.recv_timeout gives Err after HOOK_TIMEOUT_SECS.
RecvTimeout ==
  /\ hook_pc = "wait"
  /\ hook_clock >= HOOK_TIMEOUT_SECS
  /\ HookReturn(allow)
  /\ UNCHANGED <<script, hook_input, hook_clock, chatVars, sseVars, parseVars, taskVars>>

NextHook ==
  \/ Check
  \/ WriteAll
  \/ Tick
  \/ Recv
  \/ RecvTimeout

\* ------------------------------------------------------------------------
\* stream_response: the body as chunks of bytes
\* ------------------------------------------------------------------------

\* At most MaxCuts cuts divide a response body into chunks.
MaxCuts == 2

\* One byte of the body or one character of the buffer.  "C3" and "A9" are
\* the two bytes of the character "C3A9"; "FFFD" is U+FFFD.  A token of kind
\* "open" stands for the ASCII bytes `event: <type>\ndata: <json>` of frame
\* f up to its text, "close" for the ASCII bytes that end the JSON.
NoFrame == Frame("", "", "", "", NoText)
Raw(t, c, f) == [t |-> t, c |-> c, f |-> f]
Chr(c) == Raw("char", c, NoFrame)
LF == Raw("lf", "", NoFrame)
Opening(f) == Raw("open", "", [f EXCEPT !.text = NoText])
Closing == Raw("close", "", NoFrame)
REPLACEMENT_CHARACTER == Chr("FFFD")

\* str::as_bytes
RECURSIVE AsBytes(_)
AsBytes(text) ==
  IF text = << >> THEN << >>
  ELSE (IF Head(text) = "C3A9" THEN <<Raw("byte", "C3", NoFrame), Raw("byte", "A9", NoFrame)>>
        ELSE <<Chr(Head(text))>>) \o AsBytes(Tail(text))

\* The bytes of frame f on the wire, with the blank line that ends it.
Wire(f) == <<Opening(f)>> \o AsBytes(f.text) \o <<Closing, LF, LF>>

RECURSIVE WireOf(_)
WireOf(fs) == IF fs = << >> THEN << >> ELSE Wire(Head(fs)) \o WireOf(Tail(fs))

\* Response bodies: text with a two-byte character, a tool call whose
\* arguments hold one, plain ASCII, and a body whose last frame is cut off.
BodyAccent ==
  WireOf(<<FTextStart, FTextDelta(<<"a", "C3A9">>), FBlockStop, FMessageDelta("end_turn")>>)
BodyTool ==
  WireOf(<<FToolStart("t1", "file_read"), FJsonDelta(<<"{", "C3A9", "}">>), FBlockStop,
           FMessageDelta("tool_use")>>)
BodyAscii ==
  WireOf(<<FTextDelta(<<"a", "b">>), FPing, Bad(FTextDelta(<<"x">>)), FMessageDelta("end_turn")>>)
BodyCut == WireOf(<<FTextDelta(<<"a">>)>>) \o <<Opening(FTextDelta(NoText)), Chr("b")>>

Bodies == {BodyAccent, BodyTool, BodyAscii, BodyCut}

\* The body cut after each of the positions of cuts.
RECURSIVE CutAt(_, _)
CutAt(body, cuts) ==
  IF cuts = {} THEN <<body>>
  ELSE LET p == CHOOSE p \in cuts : \A q \in cuts : p <= q
       IN <<SubSeq(body, 1, p)>>
            \o CutAt(SubSeq(body, p + 1, Len(body)), {q - p : q \in cuts \ {p}})

\* The sets of at most n positions among 1..m.
RECURSIVE CutSets(_, _)
CutSets(m, n) ==
  IF n = 0 \/ m = 0 THEN {{}}
  ELSE CutSets(m - 1, n) \cup {cs \cup {m} : cs \in CutSets(m - 1, n - 1)}

\* The ways the transport may deliver a body: the chunk boundaries fall
\* anywhere.
Chunkings(body) == {CutAt(body, cuts) : cuts \in CutSets(Len(body) - 1, MaxCuts)}

\* String::from_utf8_lossy: the bytes of a complete character give the
\* character, a byte that is not part of one gives U+FFFD.
RECURSIVE from_utf8_lossy(_)
from_utf8_lossy(chunk) ==
  IF chunk = << >> THEN << >>
  ELSE IF Head(chunk).t # "byte" THEN <<Head(chunk)>> \o from_utf8_lossy(Tail(chunk))
  ELSE IF Head(chunk).c = "C3" /\ Len(chunk) >= 2 /\ chunk[2].t = "byte" /\ chunk[2].c = "A9"
  THEN <<Chr("C3A9")>> \o from_utf8_lossy(Tail(Tail(chunk)))
  ELSE <<REPLACEMENT_CHARACTER>> \o from_utf8_lossy(Tail(chunk))

\* buffer.find("\n\n"): the index of the first blank line, 0 for None.
Find(buf) ==
  LET ps == {p \in 1..(Len(buf) - 1) : buf[p] = LF /\ buf[p + 1] = LF}
  IN IF ps = {} THEN 0 ELSE CHOOSE p \in ps : \A q \in ps : p <= q

\* The text of the characters of a block after its opening.
RECURSIVE TextOf(_)
TextOf(block) ==
  IF block = << >> \/ Head(block).t # "char" THEN << >>
  ELSE <<Head(block).c>> \o TextOf(Tail(block))

\* The lines of event_block: the event type and the data of the frame; a
\* block without an event line has the event type "", data that does not
\* end is not JSON.
BlockFrame(block) ==
  IF \E i \in 1..Len(block) : block[i].t = "open"
  THEN LET i == CHOOSE i \in 1..Len(block) : block[i].t = "open"
           text == TextOf(SubSeq(block, i + 1, Len(block)))
       IN IF Len(block) = i + Len(text) + 1 /\ block[Len(block)] = Closing
          THEN [block[i].f EXCEPT !.text = text]
          ELSE Bad(block[i].f)
  ELSE NoFrame

\* while let Some(pos) = buffer.find("\n\n"): every complete frame of the
\* buffer is taken out and handled.
RECURSIVE Drain(_, _, _)
Drain(buf, a, out) ==
  IF Find(buf) = 0 THEN [buffer |-> buf, acc |-> a, out |-> out]
  ELSE LET f == BlockFrame(SubSeq(buf, 1, Find(buf) - 1))
       IN Drain(SubSeq(buf, Find(buf) + 2, Len(buf)), FrameAcc(a, f), out \o FrameEvents(a, f))

ParseInit ==
  /\ chunks = << >>
  /\ chunks_read = 0
  /\ buffer = << >>
  /\ parsed = NewAcc
  /\ sent = << >>

\* The provider answers with a body, which the transport cuts into chunks.
Respond ==
  /\ chunks = << >>
  /\ \E body \in Bodies : chunks' \in Chunkings(body)
  /\ UNCHANGED <<chunks_read, buffer, parsed, sent, chatVars, sseVars, hookVars, taskVars>>

\* One pass of `while let Some(chunk) = stream.next().await`: the abort
\* flag, the chunk appended to the buffer, the frames it completes.
ReadBytes ==
  /\ chunks_read < Len(chunks)
  /\ chunks_read' = chunks_read + 1
  /\ IF abort_flag
     THEN /\ parsed' = Aborted(parsed)
          /\ UNCHANGED <<buffer, sent>>
     ELSE LET d == Drain(buffer \o from_utf8_lossy(chunks[chunks_read + 1]), parsed, << >>)
          IN /\ buffer' = d.buffer
             /\ parsed' = d.acc
             /\ sent' = sent \o d.out
  /\ UNCHANGED <<chunks, chatVars, sseVars, hookVars, taskVars>>

NextChunks ==
  \/ Respond
  \/ ReadBytes

\* ------------------------------------------------------------------------
\* scheduler.rs: the task commands
\* ------------------------------------------------------------------------

MaxTaskCalls == 2

Callers == {1, 2}

TaskIds == {"a", "b"}

\* A schedule Job::new_async accepts and one it refuses.
Schedules == {"0 3 * * *", "hourly"}

\* The fields of TaskEntry the commands look at.
Entries == [id : TaskIds \cup {""}, enabled : BOOLEAN, schedule : Schedules]

NoJob == 0

NoCall == [op |-> "none", id |-> "", enabled |-> FALSE, schedule |-> "", new_id |-> "",
           old_uuid |-> NoJob, uuid |-> NoJob]

\* tasks.iter().position(|t| t.id == id), 0 for None
Position(ts, id) ==
  LET hits == {i \in 1..Len(ts) : ts[i].id = id}
  IN IF hits = {} THEN 0 ELSE CHOOSE i \in hits : \A j \in hits : i <= j

\* tasks.remove(idx)
RemoveAt(ts, idx) == SubSeq(ts, 1, idx - 1) \o SubSeq(ts, idx + 1, Len(ts))

TaskInit ==
  /\ tasks = << >>
  /\ job_map = [i \in TaskIds \cup {""} |-> NoJob]
  /\ jobs = {}
  /\ uuids = 0
  /\ task_pc = [p \in Callers |-> "idle"]
  /\ local = [p \in Callers |-> NoCall]
  /\ task_calls = [p \in Callers |-> 0]
  /\ task_ret = [p \in Callers |-> "none"]

\* A command is invoked.
Invoke(p) ==
  /\ task_pc[p] = "idle"
  /\ task_calls[p] < MaxTaskCalls
  /\ task_calls' = [task_calls EXCEPT ![p] = @ + 1]

\* A command returns.
Returns(p, r) ==
  /\ task_pc' = [task_pc EXCEPT ![p] = "idle"]
  /\ local' = [local EXCEPT ![p] = NoCall]
  /\ task_ret' = [task_ret EXCEPT ![p] = r]

\* A command goes on to its next await.
Awaits(p, where, l) ==
  /\ task_pc' = [task_pc EXCEPT ![p] = where]
  /\ local' = [local EXCEPT ![p] = l]
  /\ UNCHANGED task_ret

\* create_task up to add_job_to_scheduler: the id is checked under the lock.
create_task(p, entry) ==
  /\ Invoke(p)
  /\ IF entry.id = "" THEN Returns(p, "Task ID cannot be empty")
     ELSE IF \E i \in 1..Len(tasks) : tasks[i].id = entry.id
     THEN Returns(p, "already exists")
     ELSE Awaits(p, IF entry.enabled THEN "add" ELSE "insert",
               [NoCall EXCEPT !.op = "create", !.id = entry.id, !.new_id = entry.id,
                              !.enabled = entry.enabled, !.schedule = entry.schedule])
  /\ UNCHANGED <<tasks, job_map, jobs, uuids>>

\* toggle_task up to its first await outside the lock.
toggle_task(p, id, enabled) ==
  /\ Invoke(p)
  /\ LET idx == Position(tasks, id)
         uuid == IF ~enabled THEN job_map[id] ELSE NoJob
     IN IF idx = 0
        THEN Returns(p, "not found") /\ UNCHANGED <<tasks, job_map>>
        ELSE /\ tasks' = [tasks EXCEPT ![idx].enabled = enabled]
             /\ job_map' = IF ~enabled THEN [job_map EXCEPT ![id] = NoJob] ELSE job_map
             /\ IF uuid # NoJob \/ enabled
                THEN Awaits(p, IF uuid # NoJob THEN "remove" ELSE "add",
                          [NoCall EXCEPT !.op = "toggle", !.id = id, !.new_id = id,
                                         !.enabled = enabled,
                                         !.schedule = tasks[idx].schedule,
                                         !.old_uuid = uuid])
                ELSE Returns(p, "Ok")
  /\ UNCHANGED <<jobs, uuids>>

\* delete_task up to sched.remove
delete_task(p, id) ==
  /\ Invoke(p)
  /\ LET idx == Position(tasks, id)
     IN IF idx = 0
        THEN Returns(p, "not found") /\ UNCHANGED <<tasks, job_map>>
        ELSE /\ job_map' = [job_map EXCEPT ![id] = NoJob]
             /\ tasks' = RemoveAt(tasks, idx)
             /\ IF job_map[id] # NoJob
                THEN Awaits(p, "remove", [NoCall EXCEPT !.op = "delete", !.id = id,
                                                      !.old_uuid = job_map[id]])
                ELSE Returns(p, "Ok")
  /\ UNCHANGED <<jobs, uuids>>

\* update_task up to its first await outside the lock.
update_task(p, id, entry) ==
  /\ Invoke(p)
  /\ IF Position(tasks, id) = 0
     THEN Returns(p, "not found")
     ELSE Awaits(p, IF job_map[id] # NoJob THEN "remove"
                  ELSE IF entry.enabled THEN "add" ELSE "insert",
               [NoCall EXCEPT !.op = "update", !.id = id, !.new_id = entry.id,
                              !.enabled = entry.enabled, !.schedule = entry.schedule,
                              !.old_uuid = job_map[id]])
  /\ UNCHANGED <<tasks, job_map, jobs, uuids>>

\* sched.remove(&uuid).await.ok()
SchedRemove(p) ==
  /\ task_pc[p] = "remove"
  /\ jobs' = jobs \ {local[p].old_uuid}
  /\ IF local[p].op = "update"
     THEN Awaits(p, IF local[p].enabled THEN "add" ELSE "insert", local[p])
     ELSE IF local[p].op = "toggle" /\ local[p].enabled
     THEN Awaits(p, "add", local[p])
     ELSE Returns(p, "Ok")
  /\ UNCHANGED <<tasks, job_map, uuids, task_calls>>

\* add_job_to_scheduler, and the map_err(..)? of its callers
add_job_to_scheduler(p) ==
  /\ task_pc[p] = "add"
  /\ IF local[p].schedule = "hourly"
     THEN Returns(p, "Failed to build job") /\ UNCHANGED <<jobs, uuids>>
     ELSE /\ uuids' = uuids + 1
          /\ jobs' = jobs \cup {uuids + 1}
          /\ Awaits(p, "insert", [local[p] EXCEPT !.uuid = uuids + 1])
  /\ UNCHANGED <<tasks, job_map, task_calls>>

\* create_task from its second lock
CreateInsert(p) ==
  /\ task_pc[p] = "insert" /\ local[p].op = "create"
  /\ IF \E i \in 1..Len(tasks) : tasks[i].id = local[p].id
     THEN Returns(p, "already exists (concurrent create)") /\ UNCHANGED <<tasks, job_map>>
     ELSE /\ job_map' = IF local[p].uuid # NoJob
                         THEN [job_map EXCEPT ![local[p].id] = local[p].uuid]
                         ELSE job_map
          /\ tasks' = Append(tasks, [id |-> local[p].id, enabled |-> local[p].enabled,
                                     schedule |-> local[p].schedule])
          /\ Returns(p, "Ok")
  /\ UNCHANGED <<jobs, uuids, task_calls>>

\* toggle_task from its second lock
ToggleInsert(p) ==
  /\ task_pc[p] = "insert" /\ local[p].op = "toggle"
  /\ job_map' = [job_map EXCEPT ![local[p].id] = local[p].uuid]
  /\ Returns(p, "Ok")
  /\ UNCHANGED <<tasks, jobs, uuids, task_calls>>

\* update_task from its second lock
UpdateReplace(p) ==
  /\ task_pc[p] = "insert" /\ local[p].op = "update"
  /\ LET idx == Position(tasks, local[p].id)
     IN IF idx = 0
        THEN Returns(p, "vanished during update") /\ UNCHANGED <<tasks, job_map>>
        ELSE /\ job_map' = IF local[p].uuid # NoJob
                            THEN [job_map EXCEPT ![local[p].id] = NoJob,
                                                 ![local[p].new_id] = local[p].uuid]
                            ELSE [job_map EXCEPT ![local[p].id] = NoJob]
             /\ tasks' = [tasks EXCEPT ![idx] = [id |-> local[p].new_id,
                                                 enabled |-> local[p].enabled,
                                                 schedule |-> local[p].schedule]]
             /\ Returns(p, "Ok")
  /\ UNCHANGED <<jobs, uuids, task_calls>>

TaskStep(p) ==
  \/ \E entry \in Entries : create_task(p, entry)
  \/ \E id \in TaskIds, enabled \in BOOLEAN : toggle_task(p, id, enabled)
  \/ \E id \in TaskIds : delete_task(p, id)
  \/ \E id \in TaskIds, entry \in Entries : update_task(p, id, entry)
  \/ SchedRemove(p)
  \/ add_job_to_scheduler(p)
  \/ CreateInsert(p)
  \/ ToggleInsert(p)
  \/ UpdateReplace(p)

NextTasks == \E p \in Callers : TaskStep(p) /\ UNCHANGED <<chatVars, sseVars, hookVars, parseVars>>

Init == ChatInit /\ SseInit /\ HookInit /\ ParseInit /\ TaskInit

SpecTasks == Init /\ [][NextTasks]_vars

\* One response body read chunk by chunk.
SpecChunks == Init /\ [][NextChunks]_vars

\* One check of a tool call against the hook of the workspace.
SpecHook == Init /\ [][NextHook]_vars

Next ==
  \/ ChatStep(1, TRUE)
  \/ Summarize(1)
  \/ Abort
  \/ Expire

Spec == Init /\ [][Next]_vars

\* Every await of the call completes: the provider's streams end, the tools
\* and the collaborators return.
FairSpec == Spec /\ WF_vars(ChatStep(1, TRUE) \/ Summarize(1))

\* The steps of chat_send that do not wait for the provider's stream:
\* stream.next().await has no timeout, a provider that sends nothing keeps
\* the call in it.
OwnStep(c, single) ==
  \/ Call(c, single)
  \/ AfterYield(c)
  \/ RoundTop(c)
  \/ AcquireLock(c)
  \/ RefreshOk(c)
  \/ RefreshFail(c)
  \/ SendRequest(c, single)
  \/ ExecTool(c, single)
  \/ Summarize(c)

\* The provider may fall silent in the middle of a stream; everything else
\* completes.
SilentSpec == Spec /\ WF_vars(OwnStep(1, TRUE))

\* Either streaming path, one at a time: a chat_send call, or a subscription
\* on a bus that sends bad frames.
NextFrames ==
  \/ SseInit /\ Next
  \/ (\A c \in Convs : pc[c] = "idle") /\ ~ollama_enabled /\ (BadBusStep \/ SseAbort)

SpecFrames == Init /\ [][NextFrames]_vars

\* One chat_send call on a long transcript.
NextCompact ==
  \/ CallLong(1)
  \/ AfterYield(1)
  \/ Compress(1)
  \/ RoundTop(1)
  \/ AcquireLock(1)
  \/ RefreshOk(1)
  \/ RefreshFail(1)
  \/ SendRequest(1, TRUE)
  \/ ReadChunk(1)
  \/ StreamError(1)
  \/ EndOfStream(1)
  \/ ExecTool(1, TRUE)
  \/ Summarize(1)
  \/ Abort
  \/ Expire

SpecCompact == Init /\ [][NextCompact]_vars

\* Two concurrent chat_send calls.
NextConc ==
  \/ \E c \in Convs : ChatStep(c, FALSE)
  \/ Abort
  \/ Expire

SpecConc == Init /\ [][NextConc]_vars

\* The steps of a call that is not cancelled and whose transport does not
\* fail.
LockStep(c) ==
  \/ Call(c, FALSE)
  \/ AfterYield(c)
  \/ RoundTop(c)
  \/ AcquireLock(c)
  \/ RefreshOk(c)
  \/ RefreshFail(c)
  \/ SendRequest(c, FALSE)
  \/ ReadChunk(c)
  \/ EndOfStream(c)
  \/ ExecTool(c, FALSE)

\* Two concurrent chat_send calls that contend for the refresh lock; the
\* refresh reads none of the ollama settings.
NextLock ==
  \/ \E c \in Convs : LockStep(c)
  \/ Expire

InitLock == Init /\ ~ollama_enabled

SpecLock == InitLock /\ [][NextLock]_vars

\* subscribe_sse reads none of the direct path's settings.
InitBridge == Init /\ ~ollama_enabled

\* One subscription on a busy bus.
NextBridge ==
  \/ BusStep(FALSE)
  \/ SseAbort

SpecBridge == InitBridge /\ [][NextBridge]_vars

\* One subscription on a bus that is mostly silent.
NextIdle ==
  \/ SseStep(TRUE)
  \/ SseAbort

SpecIdle == InitBridge /\ [][NextIdle]_vars

\* One subscription on a bus that is mostly silent and repeats old events.
NextPings ==
  \/ PingBusStep
  \/ SseAbort

SpecPings == InitBridge /\ [][NextPings]_vars

\* Every await of the subscription completes: a read ends with a chunk, the
\* end of the stream, an error or its timeout, a connection attempt succeeds
\* or fails.
FairIdle == SpecIdle /\ WF_vars(SseStep(TRUE))

\* ------------------------------------------------------------------------
\* Claims about chat_send
\* ------------------------------------------------------------------------

Last(seq) == seq[Len(seq)]

Ids(seq) == [i \in 1..Len(seq) |-> seq[i].id]

IsToolUse(b) == b.type = "tool_use"

HasToolUse(m) == m.kind = "blocks" /\ \E i \in 1..Len(m.blocks) : IsToolUse(m.blocks[i])

\* Message i + 1 is a user message of tool_result blocks, one per tool_use
\* block of message i, with the same call ids in the same order.
Answered(conv, i) ==
  /\ i < Len(conv)
  /\ conv[i + 1].role = "user"
  /\ conv[i + 1].kind = "blocks"
  /\ \A j \in 1..Len(conv[i + 1].blocks) : conv[i + 1].blocks[j].type = "tool_result"
  /\ Ids(conv[i + 1].blocks) = Ids(SelectSeq(conv[i].blocks, IsToolUse))

Paired(conv) == \A i \in 1..Len(conv) : HasToolUse(conv[i]) => Answered(conv, i)

\* The round in progress is not in the middle of its tools.
BetweenTools(c) == pc[c] \notin {"exec", "summarize"} /\ ret[c] # "Panic"

\* C1: after every round that executed tools the transcript ends with the
\* assistant message holding one tool_use per collected call and the user
\* message holding one tool_result per tool_use, same ids, same order; and
\* whenever a request is, or is about to be, with the provider, every
\* tool_use of the transcript has its tool_result.
C1_ToolUsePaired ==
  \A c \in Convs :
    /\ BetweenTools(c) => Paired(conversation[c])
    /\ (pc[c] = "round_top" /\ round[c] > 0) =>
         LET n == Len(conversation[c]) IN
           /\ n >= 2
           /\ conversation[c][n - 1].role = "assistant"
           /\ Ids(SelectSeq(conversation[c][n - 1].blocks, IsToolUse)) = Ids(acc[c].tool_uses)
           /\ Answered(conversation[c], n - 1)

C1_Witness ==
  /\ pc[1] = "send"
  /\ round[1] > 0
  /\ Len(Last(conversation[1]).blocks) = 2
  /\ Last(conversation[1]).blocks[2].is_error

IsTerminal(e) == e.ev \in {"StreamEnd", "Error"}

\* C2: the feed of a call that has returned after StreamStart holds exactly
\* one StreamEnd or Error, and it is the last event.
C2_ExactlyOneTerminal ==
  \A c \in Convs :
    (pc[c] = "returned" /\ feed[c] # << >>) =>
      /\ Len(SelectSeq(feed[c], IsTerminal)) = 1
      /\ IsTerminal(Last(feed[c]))

\* C3: when the abort flag is set while a round's stream is being read, the
\* call's next step neither starts a tool nor appends to the transcript.
C3_AbortStopsRound ==
  [][\A c \in Convs :
       (abort_flag /\ pc[c] = "stream") =>
         (pc'[c] # "exec" /\ conversation'[c] = conversation[c])]_vars

\* C4: no request is sent in a round beyond the 25th, a call that leaves the
\* loop by the cap returns Ok after StreamEnd, and every call returns.
C4_RoundCap ==
  /\ [](\A c \in Convs :
          /\ round[c] <= MAX_TOOL_ROUNDS
          /\ pc[c] \in {"send", "stream", "exec", "summarize"} => round[c] < MAX_TOOL_ROUNDS
          /\ (pc[c] = "returned" /\ round[c] = MAX_TOOL_ROUNDS) =>
               (ret[c] = "Ok" /\ Last(feed[c]) = EvStreamEnd))
  /\ <>(pc[1] = "returned")

C4_Witness == pc[1] = "returned" /\ round[1] = MAX_TOOL_ROUNDS /\ ~abort_flag

\* C5: a call refreshes only a credential that is still the one it found
\* expired: the second waiter on the lock does not refresh again.
C5_SecondWaiterRereads == staleRefreshes = 0

C7_AtMostOneRefresh == \A c \in Convs : roundRefreshes[c] <= 1

\* C7 amended: at most one refresh for the pre-check and one for a 401.
C7_AtMostTwoRefreshes ==
  \A c \in Convs : roundRefreshes[c] <= 1 + (IF precheck[c] THEN 1 ELSE 0)

C7_Witness == roundRefreshes[1] = 2 /\ pc[1] = "stream"

\* ------------------------------------------------------------------------
\* Claims about subscribe_sse
\* ------------------------------------------------------------------------

NoDelta(out) == \A i \in DOMAIN out : out[i].ev \notin {"Delta", "Reasoning"}

\* C8: handling once more a message.part.updated event with text that the
\* subscription has already handled (the same message id, part id and text), on the same
\* connection or on a later one, sends no Delta (and no Reasoning) and leaves
\* text_lengths as it was.
C8_RedeliveryIdempotent ==
  [][redelivery' => NoDelta(emitted') /\ text_lengths' = text_lengths]_vars

\* The two-byte snapshot of p1 that was sent as a Delta on the first
\* connection has been delivered once more after the reconnect.
C8_Witness ==
  /\ redelivery
  /\ reconnects = 1
  /\ marked = {[event |-> TextPart(SessionId, "m1", "p1", "text", <<"a", "b">>), conn |-> 0]}
  /\ sentText["p1"] = <<"a", "b">>
  /\ text_lengths["p1"] = 2

\* A text-bearing part of the subscribed session whose message is neither
\* known nor the user's.
Fresh(e) ==
  /\ e \in TextEvents
  /\ e.hasText
  /\ e.session = SessionId
  /\ e.mid \notin known_msg_ids \cup user_msg_ids

IsPrefix(s, t) == Len(s) <= Len(t) /\ SubSeq(t, 1, Len(s)) = s

Sent(e, text) == IF e.ptype = "text" THEN EvDelta(text) ELSE EvReasoning(text)

\* C9: for each part id a snapshot longer than the length held is answered by
\* exactly one Delta (Reasoning) carrying the bytes beyond that length, any
\* other snapshot by nothing; the length held never decreases and equals the
\* length of the text sent for the part; a snapshot that extends the text
\* sent so far makes the text sent equal to the snapshot.
C9_SuffixBeyondHeld ==
  [][\A e \in TextEvents :
       Fresh(e) /\ DeliverEvent(e, FALSE) =>
         LET held == text_lengths[e.part]
         IN  /\ emitted' = IF Len(e.text) > held
                           THEN <<Sent(e, SubSeq(e.text, held + 1, Len(e.text)))>>
                           ELSE << >>
             /\ text_lengths'[e.part] >= held
             /\ text_lengths'[e.part] = Len(sentText'[e.part])
             /\ IsPrefix(sentText[e.part], e.text) => sentText'[e.part] = e.text]_vars

\* C10: a reconnect (the connection attempt fails, the status is not a
\* success, the stream ends, the stream fails) leaves text_lengths,
\* tool_started, user_msg_ids and known_msg_ids as they were and does not
\* lower idle_ping_count.
C10_ReconnectKeepsState ==
  [][(sse_pc \in {"connect", "await"} /\ sse_pc' = "top") =>
       /\ text_lengths' = text_lengths
       /\ tool_started' = tool_started
       /\ user_msg_ids' = user_msg_ids
       /\ known_msg_ids' = known_msg_ids
       /\ idle_ping_count' >= idle_ping_count]_vars

\* After a reconnect the subscription holds a part length, a started tool, a
\* user message id and a nudge already counted.
C10_Witness ==
  /\ sse_pc = "top"
  /\ reconnects >= 1
  /\ text_lengths["p1"] = 1
  /\ tool_started = {"t1"}
  /\ user_msg_ids = {"mu"}
  /\ idle_ping_count >= 1

\* The nudge of a step that notices, t seconds after the last activity, that
\* the session is silent, and then waits for d seconds.
NudgeRule(t, d) ==
  IF t >= IDLE_TIMEOUT /\ idle_ping_count < MAX_IDLE_PINGS
  THEN nudged' = 1 /\ idle_ping_count' = idle_ping_count + 1 /\ elapsed' = d
  ELSE nudged' = 0 /\ idle_ping_count' = idle_ping_count /\ elapsed' = Later(t, d)

\* C11: on a read timeout and on a failed or refused connection attempt, the
\* subscription sends exactly one nudge, adds one to idle_ping_count and
\* restarts the idle clock when IDLE_TIMEOUT seconds have passed since the
\* last activity and fewer than MAX_IDLE_PINGS nudges were sent since; it
\* sends no nudge and keeps the counter and the clock otherwise.
C11_NudgeWhenIdle ==
  [][/\ ReadTimeout => NudgeRule(Later(elapsed, READ_TIMEOUT), 0)
     /\ (ConnectFail \/ HttpFail) => NudgeRule(elapsed, RECONNECT_DELAY)]_vars

\* The first nudge has just been sent after a connection attempt failed.
C11_Witness ==
  /\ sse_pc = "top"
  /\ nudged = 1
  /\ idle_ping_count = 1
  /\ elapsed = RECONNECT_DELAY

\* The subscription has sent Error and returned.
ErrorReturned == sse_pc = "returned" /\ emitted = <<EvError(<<"e">>)>>

\* C12: once MAX_IDLE_PINGS nudges have been sent, the subscription
\* eventually sends Error and returns, unless an event of its session arrives
\* (which resets the counter or ends the subscription) or the call is aborted.
C12_ExhaustedEndsWithError ==
  [](idle_ping_count = MAX_IDLE_PINGS =>
       <>(\/ ErrorReturned
          \/ idle_ping_count = 0
          \/ abort_flag
          \/ sse_pc = "returned" /\ emitted = <<EvStreamEnd>>))

\* The events that end the subscription: session.idle, and message.updated
\* of an assistant message that carries an error and is not known.
Terminating(e) ==
  \/ e.type = "session.idle"
  \/ e.type = "message.updated" /\ e.role = "assistant" /\ e.error
       /\ e.mid \notin known_msg_ids

\* C13: the subscription returns only (a) on a terminating event of its own
\* session, (b) at a check of the abort flag that finds it set, or (c) at the
\* head of 'reconnect with MAX_IDLE_PINGS nudges sent and IDLE_TIMEOUT
\* seconds of silence; it sends Error in case (c) and in no other case, and
\* no failed connection attempt, stream end or stream error makes it return.
C13_ReturnsOnlyInThreeCases ==
  [][sse_pc # "returned" /\ sse_pc' = "returned" =>
       LET a == /\ sse_pc = "await"
                /\ \E e \in BusEvents(TRUE) :
                     e.session = SessionId /\ Terminating(e) /\ DeliverEvent(e, TRUE)
           b == sse_pc \in {"top", "loop"} /\ abort_flag
           c == /\ sse_pc = "top"
                /\ ~abort_flag
                /\ idle_ping_count >= MAX_IDLE_PINGS
                /\ elapsed >= IDLE_TIMEOUT
       IN  /\ a \/ b \/ c
           /\ c <=> (\E i \in DOMAIN emitted' : emitted'[i].ev = "Error")
           /\ c => emitted' = <<EvError(<<"e">>)>>
           /\ b => emitted' = << >>
           /\ a => emitted'[Len(emitted')] = EvStreamEnd]_vars

\* The budget is used up and the subscription has returned with Error.
C13_Witness ==
  /\ ErrorReturned
  /\ idle_ping_count = MAX_IDLE_PINGS
  /\ elapsed = IDLE_TIMEOUT
  /\ ~abort_flag

\* The dedup state of the subscription.
DedupState == <<text_lengths, tool_started, user_msg_ids, known_msg_ids>>

\* C14: handling an event of another session sends no event, does not end
\* the subscription and leaves the idle clock, idle_ping_count, text_lengths,
\* tool_started, user_msg_ids and known_msg_ids as they were.
C14_OtherSessionIgnored ==
  [][\A e \in BusEvents(TRUE) :
       (e.session # SessionId /\ e.type # "server.connected" /\ DeliverEvent(e, TRUE)) =>
         /\ emitted' = << >>
         /\ sse_pc' = "loop"
         /\ elapsed' = elapsed
         /\ idle_ping_count' = idle_ping_count
         /\ DedupState' = DedupState]_vars

\* An event of another session has been handled while the subscription held
\* a part length, a started tool, a nudge already counted and a running
\* idle clock.
C14_Witness ==
  /\ arm = "other"
  /\ sse_pc = "loop"
  /\ text_lengths["p1"] = 1
  /\ tool_started = {"t1"}
  /\ idle_ping_count = 2
  /\ elapsed = 3 * READ_TIMEOUT

\* C15: handling a message.part.updated or message.updated event of the
\* subscribed session whose message id is in known_msg_ids sends no event and
\* leaves text_lengths and tool_started as they were.
C15_KnownNotReplayed ==
  [][\A e \in PartEvents \cup MessageEvents :
       (/\ e.type \in {"message.part.updated", "message.updated"}
        /\ e.bad = ""
        /\ e.session = SessionId
        /\ e.mid \in known_msg_ids
        /\ DeliverEvent(e, FALSE)) =>
         /\ emitted' = << >>
         /\ text_lengths' = text_lengths
         /\ tool_started' = tool_started]_vars

\* The texts of the Delta events of es, concatenated in order.
RECURSIVE DeltaText(_)
DeltaText(es) ==
  IF es = << >> THEN NoText
  ELSE (IF Head(es).ev = "Delta" THEN Head(es).text ELSE NoText) \o DeltaText(Tail(es))

\* The events sent since the stream of the round began.
RoundEvents(c) == SubSeq(feed[c], feedAtSend[c] + 1, Len(feed[c]))

\* C16: at every point of stream_response the texts of the Delta events sent
\* so far in the round, concatenated, are the accumulated text_content, and
\* the text_content it returns, on the aborted return too, is the
\* concatenation of all the Delta texts of the round.
C16_DeltasAreTextContent ==
  \A c \in Convs : DeltaText(RoundEvents(c)) = acc[c].text_content

\* stream_response returned on the abort flag after it had sent Delta events.
C16_Witness ==
  \E c \in Convs :
    /\ pc[c] = "returned"
    /\ acc[c].stop_reason = "aborted"
    /\ acc[c].text_content = <<"a", "b">>

\* The frames of the tool call id in the stream fs: from its
\* content_block_start to the first content_block_stop after it.
CallStart(fs, id) ==
  CHOOSE i \in DOMAIN fs : fs[i].event = "content_block_start" /\ fs[i].id = id

CallStop(fs, id) ==
  CHOOSE j \in DOMAIN fs :
    /\ j > CallStart(fs, id)
    /\ fs[j].event = "content_block_stop"
    /\ \A k \in (CallStart(fs, id) + 1)..(j - 1) : fs[k].event # "content_block_stop"

\* The texts of the input_json_delta frames among fs (frames whose data is
\* valid JSON), concatenated in order.
RECURSIVE Fragments(_)
Fragments(fs) ==
  IF fs = << >> THEN NoText
  ELSE (IF Head(fs).kind = "input_json_delta" /\ ~Head(fs).bad THEN Head(fs).text ELSE NoText)
         \o Fragments(Tail(fs))

\* The argument text of the call id as the provider sent it.
ArgsOf(fs, id) == Fragments(SubSeq(fs, CallStart(fs, id) + 1, CallStop(fs, id) - 1))

\* The parse of an argument text: itself when it is a JSON document, the
\* empty object otherwise.
Parsed(text) == IF text \in ValidJson THEN text ELSE <<"{", "}">>

\* C17: however the provider cuts the argument JSON of a tool call into
\* input_json_delta fragments, the arguments stored in the tool_use block of
\* the assistant message and the arguments given to the tool are the parse of
\* the fragments concatenated in arrival order; a text that is not valid JSON
\* gives the empty object and does not make the call return an error.
C17_ArgumentsAreParsedConcatenation ==
  [][\A c \in Convs :
       /\ (pc[c] = "stream" /\ pc'[c] = "exec") =>
            LET blocks == Last(conversation'[c]).blocks IN
              \A i \in DOMAIN blocks :
                blocks[i].type = "tool_use" =>
                  blocks[i].body = Parsed(ArgsOf(stream[c], blocks[i].id))
       /\ lastExec'[c] # lastExec[c] =>
            /\ lastExec'[c].input = Parsed(ArgsOf(stream[c], lastExec'[c].id))
            /\ ret'[c] # "Err"]_vars

\* The tool ran on the arguments {k}, which arrived as three fragments.
C17_Witness ==
  \E c \in Convs :
    /\ stream[c] = ScriptArgs(<<<<"{">>, <<"k">>, <<"}">>>>)
    /\ lastExec[c].id = "t1"
    /\ lastExec[c].input = <<"{", "k", "}">>
    /\ round[c] = lastExec[c].round + 1
    /\ pc[c] = "round_top"

\* The command holds the pattern when letter case is disregarded on both sides.
HoldsIgnoringCase(cmd, pattern) == Contains(ToLowercase(cmd), ToLowercase(pattern))

OnDenyList(cmd) == \E i \in DOMAIN blocked : HoldsIgnoringCase(cmd, blocked[i])

\* The transcript ends with the user message that answers the call id with
\* the tool_result (output, is_error).
AnsweredWith(conv, id, output, is_error) ==
  /\ conv # << >>
  /\ Last(conv).role = "user"
  /\ \E i \in DOMAIN Last(conv).blocks :
       Last(conv).blocks[i] = [type |-> "tool_result", id |-> id, name |-> "",
                               body |-> output, is_error |-> is_error]

\* C18: a shell_exec call whose command holds a pattern of the deny-list,
\* letter case disregarded, returns is_error = true without spawning a
\* process, and the transcript of the next round holds the tool_result with
\* that error text for the call.
C18_DenyListBlocks ==
  \A c \in Convs :
    (/\ lastExec[c].name = "shell_exec"
     /\ OnDenyList(Command(lastExec[c].input))) =>
       /\ lastExec[c].outcome.is_error
       /\ ~lastExec[c].outcome.spawned
       /\ (pc[c] = "round_top" /\ round[c] = lastExec[c].round + 1) =>
            AnsweredWith(conversation[c], lastExec[c].id, lastExec[c].outcome.output, TRUE)

\* The kinds of failing call: an unknown tool, a refused command, a process
\* that fails or times out, a file tool that fails.
Failing(exec) == exec.outcome.is_error \/ exec.outcome.panicked

\* C19: a tool call that fails does not fail the conversation call:
\* execute_tool returns (output, is_error = true) instead of raising, the
\* tool_result with is_error = true is appended for the call id, and the loop
\* goes on.
C19_ToolFailureIsAResult ==
  [][\A c \in Convs :
       (lastExec'[c] # lastExec[c] /\ Failing(lastExec'[c])) =>
         /\ ~lastExec'[c].outcome.panicked
         /\ ret'[c] = "none"
         /\ pc'[c] \in {"exec", "round_top"}
         /\ Last(tool_result_blocks'[c]) =
              [type |-> "tool_result", id |-> lastExec'[c].id, name |-> "",
               body |-> lastExec'[c].outcome.output, is_error |-> TRUE]]_vars

\* The request of stream_response has just been answered for call c.
RequestAnswered(c) == pc[c] = "send" /\ pc'[c] # "send"

\* C20: on a status that is not a success stream_response does not begin to
\* stream: it sends no event, reads no frame and returns an error; the error
\* is "AUTH_EXPIRED" exactly when the status is 401, and otherwise it carries
\* the status and the body of the response.
C20_NonSuccessStatus ==
  [][\A c \in Convs :
       (RequestAnswered(c) /\ lastCall'[c].status \notin {"", "200"}) =>
         /\ feed'[c] = feed[c]
         /\ frames'[c] = frames[c]
         /\ acc'[c] = acc[c]
         /\ pc'[c] # "stream"
         /\ lastCall'[c].error # << >>
         /\ lastCall'[c].error = <<"AUTH_EXPIRED">> <=> lastCall'[c].status = "401"
         /\ lastCall'[c].status # "401" =>
              lastCall'[c].error =
                <<"Claude API error ", lastCall'[c].status, ": ">> \o lastCall'[c].body]_vars

\* The provider answered 500 with a body, and the call returned the error.
C20_Witness ==
  \E c \in Convs :
    /\ lastCall[c].status = "500"
    /\ lastCall[c].body = <<"b">>
    /\ ret[c] = "Err"
    /\ round[c] > 0

\* No Error event among the events es.
NoError(es) == \A i \in DOMAIN es : es[i].ev # "Error"

\* The events the step appends to the feed of call c.
Appended(c) == SubSeq(feed'[c], Len(feed[c]) + 1, Len(feed'[c]))

\* C21: cancellation is not reported as an error: with the abort flag set,
\* stream_response returns Ok with stop reason "aborted", chat_send returns
\* Ok and sends no Error event, subscribe_sse returns Ok and sends no Error
\* event.
C21_CancelIsNotAnError ==
  [][abort_flag =>
       /\ \A c \in Convs :
            /\ (pc[c] = "stream" /\ pc'[c] # "stream") =>
                 (acc'[c].stop_reason = "aborted" /\ ret'[c] # "Err")
            /\ Len(feed'[c]) >= Len(feed[c]) => NoError(Appended(c))
            /\ ret'[c] # ret[c] => ret'[c] = "Ok"
       /\ sse_pc' # sse_pc =>
            /\ NoError(emitted')
            /\ sse_pc' = "returned" => sse_ret' = "Ok"]_vars

\* C22: every suspension point checks the abort flag when it resumes, so a
\* call in progress when the flag is set stops, also when the provider
\* sends nothing further.
C22_CancelStopsTheCall ==
  (abort_flag /\ Active(1)) ~> (pc[1] = "returned")

\* The step starts call c.
Starts(c) == pc[c] = "idle" /\ pc'[c] # "idle"

\* C23: starting a conversation neither sets nor clears the cancellation
\* state that another conversation in progress observes.
C23_StartLeavesOthersAlone ==
  [][\A c, d \in Convs :
       (c # d /\ Starts(c) /\ Active(d)) => abort_flag' = abort_flag]_vars

IsToolEnd(e) == e.ev = "ToolEnd"

\* The ToolEnd events of the round.
ToolEnds(c) == SelectSeq(RoundEvents(c), IsToolEnd)

\* The ToolEnd events es and the tool_result blocks bs answer the calls, in
\* the calls' order, each event holding the output of its block.
InCallOrder(calls, es, bs) ==
  /\ Ids(bs) = Ids(calls)
  /\ Ids(es) = Ids(calls)
  /\ \A i \in DOMAIN bs : bs[i].type = "tool_result" /\ es[i].text = bs[i].body

\* C24: the tool calls of a round run one at a time in the order the provider
\* sent them: a call is started only when every earlier call of the round has
\* returned and been recorded, and the ToolEnd events and tool_result blocks
\* of the round are in that order, each with the id of the call whose output
\* it holds.
C24_ToolsInOrder ==
  /\ [](\A c \in Convs :
          /\ pc[c] \in {"exec", "summarize"} =>
               /\ toolIdx[c] \in 1..Len(acc[c].tool_uses)
               /\ InCallOrder(SubSeq(acc[c].tool_uses, 1, toolIdx[c] - 1), ToolEnds(c),
                              tool_result_blocks[c])
          /\ pc[c] = "summarize" => lastExec[c].id = acc[c].tool_uses[toolIdx[c]].id
          /\ (pc[c] = "round_top" /\ round[c] > 0) =>
               InCallOrder(acc[c].tool_uses, ToolEnds(c), Last(conversation[c]).blocks))
  /\ [][\A c \in Convs :
          lastExec'[c] # lastExec[c] =>
            /\ lastExec'[c].id = acc[c].tool_uses[Len(tool_result_blocks[c]) + 1].id
            /\ (pc'[c] \in {"exec", "round_top"}) =>
                 /\ Last(tool_result_blocks'[c]).id = lastExec'[c].id
                 /\ Last(tool_result_blocks'[c]).body = lastExec'[c].outcome.output
                 /\ Last(feed'[c]) = [ev |-> "ToolEnd", id |-> lastExec'[c].id, name |-> "",
                                       text |-> lastExec'[c].outcome.output]]_vars

\* A round of two calls has ended: both were executed, the second failed.
C24_Witness ==
  \E c \in Convs :
    /\ pc[c] = "round_top"
    /\ round[c] > 0
    /\ Ids(acc[c].tool_uses) = <<"t1", "t2">>
    /\ lastExec[c].id = "t2"
    /\ Last(conversation[c]).blocks[1].body # Last(conversation[c]).blocks[2].body

\* The step reads the next chunk of the stream of call c and handles its frame.
ReadsFrame(c) == pc[c] = "stream" /\ frames[c] # << >> /\ frames'[c] = Tail(frames[c])

\* The event types whose handling in stream_response reads the data.
DataEvents == {"message_start", "content_block_start", "content_block_delta", "message_delta"}

\* The event types stream_response handles without reading the data as JSON.
BareEvents == {"content_block_stop", "error"}

\* A frame of the bus that is bad: no data line, data that does not parse,
\* an unknown event type.
BadOnBus(e) ==
  \/ e.bad # ""
  \/ e.type \notin {"server.connected", "message.part.updated", "message.updated", "session.idle"}

\* Handling the bus frame e changed nothing and sent nothing.
BusFrameSkipped(e) ==
  DeliverEvent(e, TRUE) =>
    /\ emitted' = << >>
    /\ sse_pc' = "loop"
    /\ elapsed' = elapsed
    /\ idle_ping_count' = idle_ping_count
    /\ DedupState' = DedupState

\* C25 as stated: in both streaming paths a frame with a missing data line,
\* invalid JSON or an unknown event type sends no event and leaves the round
\* accumulator, or the state of the subscription, as it was.
C25_BadFrameSkipped ==
  [][/\ \A c \in Convs :
          (ReadsFrame(c) /\ (Head(frames[c]).bad \/ Head(frames[c]).event \notin
                                DataEvents \cup BareEvents)) =>
            (acc'[c] = acc[c] /\ feed'[c] = feed[c] /\ pc'[c] = "stream")
     /\ \A e \in BadBusEvents : BadOnBus(e) => BusFrameSkipped(e)]_vars

\* C25: a frame of an unknown event type, and a frame of an event type whose
\* handling reads the data (message_start, content_block_start,
\* content_block_delta, message_delta) when the data is missing or is not
\* valid JSON, sends no event and leaves the round accumulator as it was; on
\* the bus every frame without data, with data that does not parse or of an
\* unknown type leaves the subscription as it was.
C25_BadDataFrameSkipped ==
  [][/\ \A c \in Convs :
          (ReadsFrame(c) /\ \/ Head(frames[c]).bad /\ Head(frames[c]).event \in DataEvents
                            \/ Head(frames[c]).event \notin DataEvents \cup BareEvents) =>
            (acc'[c] = acc[c] /\ feed'[c] = feed[c] /\ pc'[c] = "stream")
     /\ \A e \in BadBusEvents : BadOnBus(e) => BusFrameSkipped(e)]_vars

\* A stream with bad frames among good ones has been read to its end, and
\* the round holds what the good frames say.
C25_Witness ==
  \E c \in Convs :
    /\ stream[c] = ScriptBadTool
    /\ pc[c] = "exec"
    /\ Ids(acc[c].tool_uses) = <<"t1">>
    /\ acc[c].tool_uses[1].input_json = <<"{", "}">>

\* The step on which a call of the ollama module by call c returns.
CollaboratorReturns(c, at) == pc[c] = at /\ pc'[c] # at

\* C26: a failure of the compaction collaborator never fails the call: when
\* compress_history fails the call goes on to its first round with the
\* transcript exactly as received, and when summarize fails on a large tool
\* output the tool_result of that call carries the raw output of the tool.
C26_CollaboratorFailureIsNotFatal ==
  [][\A c \in Convs :
       /\ (CollaboratorReturns(c, "compress") /\ lastReply'[c] = "failed") =>
            /\ conversation'[c] = messages[c]
            /\ pc'[c] = "round_top"
            /\ ret'[c] = "none"
            /\ \A i \in 1..Len(feed'[c]) : feed'[c][i].ev # "Error"
       /\ (CollaboratorReturns(c, "summarize") /\ lastReply'[c] = "failed") =>
            /\ pc'[c] \in {"exec", "round_top"}
            /\ ret'[c] = "none"
            /\ Last(tool_result_blocks'[c]) =
                 [type |-> "tool_result", id |-> lastExec[c].id, name |-> "",
                  body |-> lastExec[c].outcome.output, is_error |-> FALSE]]_vars

\* compress_history has failed on a long transcript and the first request
\* of the call is about to go out with the transcript as it was received.
C26_Witness ==
  \E c \in Convs :
    /\ lastReply[c] = "failed"
    /\ \E i \in 1..Len(feed[c]) : feed[c][i] = EvOllamaStatus("compression_failed")
    /\ pc[c] = "send"
    /\ round[c] = 0
    /\ Len(messages[c]) > 10
    /\ convAtRound[c] = messages[c]

\* The transcript is the pair of synthetic messages followed by the last
\* keep messages of the input.
CompactedFrom(result, input, keep) ==
  /\ Len(input) > keep
  /\ Len(result) = keep + 2
  /\ result[1].role = "user" /\ result[1].kind = "text"
  /\ Head(result[1].text) = "[Prior context"
  /\ result[2] = [role |-> "assistant", kind |-> "text", text |-> <<"Context received.">>,
                   blocks |-> << >>]
  /\ \A i \in 1..keep : result[2 + i] = input[Len(input) - keep + i]

AnsweredInTime ==
  /\ script.exists /\ script.spawns
  /\ script.exits /\ script.runs <= HOOK_TIMEOUT_SECS
  /\ script.waits /\ script.status = 0
  /\ script.stdout.utf8
  /\ \E i \in 1..Len(script.stdout.text) : script.stdout.text[i] = "action"

\* C28: HookGuard::check is fail-open: it returns a result other than allow
\* only when check.py exits successfully with a result that can be parsed,
\* and a check.py that gives no answer within HOOK_TIMEOUT_SECS seconds does
\* not hold the call any longer: the call has returned (allow) by then.
C28_FailOpen ==
  /\ (hook_pc = "returned" /\ hook_ret.action # "allow") => AnsweredInTime
  /\ (hook_pc = "returned" /\ ~AnsweredInTime) => hook_ret = allow
  /\ hook_clock > HOOK_TIMEOUT_SECS => hook_pc = "returned"

\* ------------------------------------------------------------------------
\* Claims about the requests of a round
\* ------------------------------------------------------------------------

\* The step sends a provider request of call c.
Sends(c) == pc[c] = "send" /\ pc'[c] # "send"

\* C29: a round sends at most two provider requests; the second is sent only
\* after the first was answered 401 and a refresh for it succeeded, and it
\* carries the transcript of the first; a 401 answer to the second request,
\* or a refresh that fails, fails the call.
C29_AtMostTwoRequests ==
  /\ [](\A c \in Convs : requests[c] <= 2)
  /\ [][\A c \in Convs :
          /\ (Sends(c) /\ requests[c] >= 1) =>
               /\ lastCall[c].status = "401"
               /\ access_token[c] > sentToken[c]
               /\ conversation[c] = convAtRound[c]
               /\ lastCall'[c].status = "401" => (pc'[c] = "returned" /\ ret'[c] = "Err")
          /\ (Sends(c) /\ requests[c] = 0 /\ lastCall'[c].status = "401") =>
               pc'[c] = "lock_401"
          /\ (pc[c] = "refresh_401" /\ pc'[c] # "refresh_401" /\ access_token'[c] = access_token[c])
               => (pc'[c] = "returned" /\ ret'[c] = "Err")]_vars

\* The second request of a round, sent after a 401 and a refresh, has been
\* answered 401 as well and the call has failed.
C29_Witness ==
  \E c \in Convs :
    /\ requests[c] = 2
    /\ lastCall[c].status = "401"
    /\ pc[c] = "returned" /\ ret[c] = "Err"
    /\ round[c] = 1

\* The step on which the round of call c stops reading its stream.
RoundEnds(c) == pc[c] = "stream" /\ pc'[c] # "stream"

\* The round that ends on this step gave a result that asks for tools.
AsksForTools(c) ==
  /\ ret'[c] # "Err"
  /\ acc'[c].stop_reason = "tool_use"
  /\ Len(acc'[c].tool_uses) > 0

Consumed(c) == SubSeq(stream[c], 1, Len(stream[c]) - Len(frames[c]))

\* A content_block_start frame stream_response could read.
StartsBlock(f) == f.event = "content_block_start" /\ ~f.bad

\* The content_block_start frames of tool_use blocks that the
\* content_block_stop frame fs[j] closes: no block was started or stopped in
\* between.
OpenedAt(fs, j) ==
  {i \in 1..(j - 1) :
     /\ StartsBlock(fs[i]) /\ fs[i].kind = "tool_use"
     /\ \A k \in (i + 1)..(j - 1) : ~StartsBlock(fs[k]) /\ fs[k].event # "content_block_stop"}

\* The tool calls whose blocks were stopped among the first n frames of fs, in
\* the order of the stops, with the id and name of their starts.
RECURSIVE StoppedCalls(_, _)
StoppedCalls(fs, n) ==
  IF n = 0 THEN << >>
  ELSE StoppedCalls(fs, n - 1) \o
         (IF fs[n].event = "content_block_stop" /\ OpenedAt(fs, n) # {}
          THEN LET i == CHOOSE i \in OpenedAt(fs, n) : TRUE
               IN <<[id |-> fs[i].id, name |-> fs[i].name]>>
          ELSE << >>)

IdsAndNames(tool_uses) ==
  [i \in 1..Len(tool_uses) |-> [id |-> tool_uses[i].id, name |-> tool_uses[i].name]]

\* C31: at every point of a round that was not cancelled the tool-call list
\* holds exactly one entry for each tool_use block whose content_block_stop
\* has been handled, in the order of the stops and with the id and name of
\* the block's content_block_start; a block that is not a tool call and a
\* tool call whose stop has not arrived have no entry.
C31_ToolCallsAreStoppedBlocks ==
  \A c \in Convs :
    acc[c].stop_reason # "aborted" =>
      IdsAndNames(acc[c].tool_uses) = StoppedCalls(stream[c], Len(Consumed(c)))

\* A stream of a text block and two tool calls has been read: the list holds
\* the two calls; and a stream whose tool call was never stopped has been read
\* to its end with an empty list.
C31_Witness ==
  \E c \in Convs :
    /\ frames[c] = << >>
    /\ \/ stream[c] = ScriptTextTools /\ Ids(acc[c].tool_uses) = <<"t1", "t2">>
       \/ stream[c] = ScriptCut /\ acc[c].tool_uses = << >> /\ acc[c].stop_reason = "tool_use"

\* ------------------------------------------------------------------------
\* Claims about the chunks of a response body
\* ------------------------------------------------------------------------

RECURSIVE Flatten(_)
Flatten(chs) == IF chs = << >> THEN << >> ELSE Head(chs) \o Flatten(Tail(chs))

\* What stream_response makes of the body when it arrives as one chunk.
Whole(body) == Drain(from_utf8_lossy(body), NewAcc, << >>)

\* The body has been read to its end and the call was not cancelled.
BodyRead == chunks # << >> /\ chunks_read = Len(chunks) /\ parsed.stop_reason # "aborted"

\* The events, the text, the tool calls and the stop reason are those of the
\* body in one chunk.
SameAsWhole ==
  LET w == Whole(Flatten(chunks))
  IN /\ sent = w.out
     /\ parsed.text_content = w.acc.text_content
     /\ parsed.tool_uses = w.acc.tool_uses
     /\ parsed.stop_reason = w.acc.stop_reason

\* A chunk ends between the two bytes of a character.
SplitsCharacter ==
  \E i \in 1..Len(chunks) : chunks[i][Len(chunks[i])] = Raw("byte", "C3", NoFrame)

\* C32: without cancellation the events sent, the accumulated text, the
\* tool-call list and the stop reason depend only on the bytes of the body,
\* not on how the transport cuts them into chunks: every chunking gives what
\* the body gives as a single chunk.
C32_ChunkingDoesNotMatter == BodyRead => SameAsWhole

\* Chunkings that keep the bytes of every character together give the same
\* result, wherever else they cut.
WholeCharactersSuffice == (BodyRead /\ ~SplitsCharacter) => SameAsWhole

\* ------------------------------------------------------------------------
\* Claims about the tool events of subscribe_sse
\* ------------------------------------------------------------------------

\* The step is one of the subscription.
SseActs == sseVars' # sseVars

CallIds == {e.call : e \in ToolEvents} \ {""}

\* How many ToolStart events of call id there are among es.
StartsOf(es, id) == Cardinality({i \in DOMAIN es : es[i].ev = "ToolStart" /\ es[i].id = id})

\* The ToolEnd of a tool part that ended with status "completed".
IsCompletedEnd(ev) == ev.ev = "ToolEnd" /\ ev.text = <<"o">>

\* C33: during a whole subscription, reconnects included, at most one
\* ToolStart is sent for each tool-call id, however often "running" and
\* "completed" updates of the call arrive; a "completed" update of a call for
\* which none was sent sends its ToolStart immediately before its ToolEnd.
C33_ToolStartAtMostOnce ==
  [][SseActs =>
       /\ \A id \in CallIds :
            StartsOf(emitted', id) + (IF id \in startSent THEN 1 ELSE 0) <= 1
       /\ \A i \in DOMAIN emitted' :
            (IsCompletedEnd(emitted'[i]) /\ emitted'[i].id \notin startSent) =>
              /\ i > 1
              /\ emitted'[i - 1].ev = "ToolStart"
              /\ emitted'[i - 1].id = emitted'[i].id]_vars

\* After a reconnect a "completed" update of a call whose ToolStart was sent
\* is answered by the ToolEnd alone.
C33_Witness ==
  /\ reconnects >= 1
  /\ "t1" \in startSent
  /\ emitted = <<EvToolEnd("t1", <<"o">>)>>

\* C34: every ToolEnd the subscription sends is preceded in the feed by a
\* ToolStart of the same call id, whether the tool part ended with status
\* "completed" or with status "error".
C34_ToolEndAfterToolStart ==
  [][SseActs =>
       \A i \in DOMAIN emitted' :
         emitted'[i].ev = "ToolEnd" =>
           \/ emitted'[i].id \in startSent
           \/ \E j \in 1..(i - 1) :
                emitted'[j].ev = "ToolStart" /\ emitted'[j].id = emitted'[i].id]_vars

\* ------------------------------------------------------------------------
\* Claims about the tool events of chat_send
\* ------------------------------------------------------------------------

\* How many events ev of call id there are among the first n events of es.
CountOf(es, n, ev, id) ==
  Cardinality({i \in 1..n : es[i].ev = ev /\ es[i].id = id})

ToolIds == {"t1", "t2", "t9"}

\* The call has returned Ok and was not cancelled.
Completed(c) == pc[c] = "returned" /\ ret[c] = "Ok" /\ ~abort_flag

\* Every ToolEnd of the feed of call c answers a ToolStart of its call id
\* that no earlier ToolEnd answered.
EndsFollowStarts(c) ==
  \A id \in ToolIds : \A n \in 1..Len(feed[c]) :
    CountOf(feed[c], n, "ToolEnd", id) <= CountOf(feed[c], n, "ToolStart", id)

\* Every ToolStart of the feed of call c has its ToolEnd.
StartsAreEnded(c) ==
  \A id \in ToolIds :
    CountOf(feed[c], Len(feed[c]), "ToolStart", id) = CountOf(feed[c], Len(feed[c]), "ToolEnd", id)

\* C35: in the feed of a call that returned without being cancelled and
\* without failing, every ToolStart is followed, before the StreamEnd, by a
\* ToolEnd of the same call id, and every ToolEnd is preceded by a ToolStart
\* of its call id.
C35_ToolStartsAreEnded ==
  \A c \in Convs :
    /\ EndsFollowStarts(c)
    /\ Completed(c) => (Last(feed[c]) = EvStreamEnd /\ StartsAreEnded(c))

\* Whatever becomes of the call, no ToolEnd is sent without its ToolStart.
ToolEndsHaveStarts == \A c \in Convs : EndsFollowStarts(c)

\* ------------------------------------------------------------------------
\* Claims about the nudge counter of subscribe_sse
\* ------------------------------------------------------------------------

\* A message.part.updated or message.updated event of the subscribed session.
SessionEvent(e) ==
  /\ e.bad = ""
  /\ e.type \in {"message.part.updated", "message.updated"}
  /\ e.session = SessionId

\* C36: idle_ping_count stays within 0..MAX_IDLE_PINGS; it goes up only by
\* one and only on a step that sends a nudge; every message.part.updated and
\* message.updated event of the subscribed session sets it to 0, also when the
\* event belongs to a known message or to a message of the user and is
\* otherwise suppressed.
C36_PingCounter ==
  [][SseActs =>
       /\ idle_ping_count' \in 0..MAX_IDLE_PINGS
       /\ idle_ping_count' > idle_ping_count =>
            (idle_ping_count' = idle_ping_count + 1 /\ nudged' = 1)
       /\ \A e \in PingBusEvents :
            (SessionEvent(e) /\ DeliverEvent(e, TRUE)) => idle_ping_count' = 0]_vars

\* The last of the MAX_IDLE_PINGS nudges has just been sent.
C36_Witness == idle_ping_count = MAX_IDLE_PINGS /\ nudged = 1

\* ------------------------------------------------------------------------
\* Claims about the refresh lock
\* ------------------------------------------------------------------------

\* The calls whose refresh request is in flight.
Refreshing == {c \in Convs : pc[c] \in {"refresh_pre", "refresh_401"}}

\* The refresh of call c failed and the call returned its error.
RefreshFailed(c) ==
  /\ pc[c] = "returned" /\ ret[c] = "Err"
  /\ lastCall[c].error = AUTH_EXPIRED /\ attempt[c] = 1 /\ roundRefreshes[c] = 1

\* C37: among all the chat_send calls at most one refresh request is in
\* flight at any time, and the lock is held only by the call whose request is
\* in flight: it is released when the refresh succeeds and when it fails and
\* the call returns the error, so that another call can refresh afterwards.
C37_OneRefreshAtATime ==
  /\ Cardinality(Refreshing) <= 1
  /\ \A c \in Convs : c \in Refreshing <=> refreshLock = c

\* One call has returned the error of its failed refresh and the other call
\* holds the lock for its own refresh.
C37_Witness ==
  \E c, d \in Convs :
    /\ RefreshFailed(c)
    /\ d \in Refreshing /\ refreshLock = d

\* ------------------------------------------------------------------------
\* Claims about tool calls in a compacted transcript
\* ------------------------------------------------------------------------

IsToolResult(b) == b.type = "tool_result"

HasToolResult(m) == m.kind = "blocks" /\ \E i \in 1..Len(m.blocks) : IsToolResult(m.blocks[i])

\* Every message of tool_result blocks follows the assistant message that
\* holds the tool_use blocks of the same call ids.
ResultsFollowCalls(conv) ==
  \A i \in 1..Len(conv) :
    HasToolResult(conv[i]) =>
      /\ i > 1
      /\ conv[i - 1].role = "assistant" /\ conv[i - 1].kind = "blocks"
      /\ Ids(SelectSeq(conv[i].blocks, IsToolResult)) =
           Ids(SelectSeq(conv[i - 1].blocks, IsToolUse))

\* The roles of the transcript alternate and its last message is of the user.
Alternates(msgs) ==
  /\ msgs # << >> /\ msgs[Len(msgs)].role = "user"
  /\ \A i \in 1..(Len(msgs) - 1) : msgs[i].role # msgs[i + 1].role

\* C38: the transcript chat_send works on after compaction still pairs tool
\* calls with results: every message of tool_result blocks is immediately
\* preceded by the assistant message holding the tool_use blocks of the same
\* call ids; compaction does not cut between the two.
C38_CompactionKeepsPairs == \A c \in Convs : ResultsFollowCalls(conversation[c])

\* A transcript whose roles alternate and which ends with a message of the
\* user keeps its pairs.
AlternatingKeepsPairs ==
  \A c \in Convs : Alternates(messages[c]) => ResultsFollowCalls(conversation[c])

\* ------------------------------------------------------------------------
\* Claims about the task commands
\* ------------------------------------------------------------------------

\* No command is between its first and its last step.
Quiescent == \A p \in Callers : task_pc[p] = "idle"

\* The job is recorded in job_map under the id of an enabled task of the registry.
Recorded(u) == \E i \in 1..Len(tasks) : tasks[i].enabled /\ job_map[tasks[i].id] = u

\* C39: once the create_task, toggle_task, update_task and delete_task
\* commands invoked have returned, in whatever order their steps interleaved,
\* every job the cron scheduler holds is recorded in job_map under the id of
\* an enabled task of the registry, so that no task has a second job and no
\* job runs without a task.
C39_JobsBelongToEnabledTasks == Quiescent => \A u \in jobs : Recorded(u)

\* C40: once the create_task, update_task and delete_task commands invoked
\* have returned, two of them possibly creating the same id at the same time,
\* no two entries of the registry have the same id.
C40_TaskIdsAreUnique ==
  Quiescent => \A i, j \in 1..Len(tasks) : tasks[i].id = tasks[j].id => i = j

\* Two create_task commands that overlap do not both add the id they share.
ConcurrentCreatesAddOnce ==
  [][\A p \in Callers :
       (task_pc[p] = "insert" /\ local[p].op = "create" /\ task_pc'[p] = "idle"
        /\ \E i \in 1..Len(tasks) : tasks[i].id = local[p].id)
       => tasks' = tasks /\ task_ret'[p] = "already exists (concurrent create)"]_vars

====
